---- MODULE Spec2Model ----
(***************************************************************************)
(* A model of the YABQOLA add-on: its operators (host-invoked callbacks    *)
(* that edit keyframes, shape keys, cameras and keymaps), the quick-snap   *)
(* modal session and the keymap registry.                                  *)
(*                                                                         *)
(* Every operator invocation is recorded in `call` (the operator's name    *)
(* and the configuration its execute() read, i.e. execute's locals) and    *)
(* `ret` (the status set it returned).  Each specification starts from a   *)
(* family of documents and runs one invocation (or one session).           *)
(***************************************************************************)
EXTENDS Integers, Sequences, FiniteSets, TLC

VARIABLES
    has_settings,               \* scene.animation_qol_settings is attached
    call,                       \* the invocation: operator and configuration read
    ret,                        \* what the invocation returned ("NONE": not yet)
    \* ---- animation data (F-Curves) and the context the operators read
    keyframe_points,            \* FCurve.keyframe_points, per curve
    lock,                       \* FCurve.lock, per curve
    selected_editable_fcurves,  \* context.selected_editable_fcurves
    selected_objects,           \* context.selected_objects
    active_object,              \* context.active_object
    selected_pose_bones,        \* context.selected_pose_bones
    active_pose_bone,           \* context.active_pose_bone
    \* ---- shape keys (auto blink)
    shape_keys,                 \* per object: has obj.data.shape_keys, and the named block?
    key_block,                  \* per object: the named ShapeKey's value and its keyframes
    key_block_before,           \* key_block when the invocation started
    blink,                      \* generate_auto_blinks' position and loop locals
    \* ---- reference camera
    scene_camera,               \* scene.camera
    camera_data,                \* per camera object: its Camera datablock, or Absent
    render,                     \* scene.render
    refcam_image,               \* settings.refcam_image
    refcam_flags,               \* settings.refcam_use_equiv_35, _fov_h and _fov_v
    \* ---- 3D viewport (quick snap)
    view,                       \* context.mode, area and region types, header text
    object_location,            \* per object: obj.location
    verts,                      \* per object: its mesh's vertices (co, select)
    edit_objects,               \* meshes in edit mode
    snap,                       \* the running quick snap operator instance
    geometry_before,            \* locations and vertices when the session started
    \* ---- motion hold
    hold,                       \* insert_motion_hold's position, loop locals and iterator
    keyframe_points_before,     \* keyframe_points when the invocation started
    \* ---- add-on registration and keymaps
    registered,                 \* the add-on's classes are registered with the host
    addon_entry,                \* preferences.addons holds the add-on's entry
    prefs,                      \* the AnimationQOLPreferences values of that entry
    keyconfigs_addon,           \* window_manager.keyconfigs.addon is available
    _addon_keymaps,             \* preferences._addon_keymaps: (keymap, item) pairs
    keymaps,                    \* keyconfigs.addon.keymaps: name |-> keymap items
    \* ---- objects, F-Curve modifiers and render engines
    bpy_objects,                \* per object: in the scene, visibility, transform, pose
    modifiers,                  \* FCurve.modifiers, per curve
    cycles,                     \* scene.cycles, or Absent
    eevee                       \* scene.eevee, or Absent

animVars == <<keyframe_points, lock, selected_editable_fcurves, selected_objects,
              active_object, selected_pose_bones, active_pose_bone>>
blinkVars == <<shape_keys, key_block, key_block_before, blink>>
camVars == <<scene_camera, camera_data, render, refcam_image, refcam_flags>>
snapVars == <<view, object_location, verts, edit_objects, snap, geometry_before>>
holdVars == <<hold, keyframe_points_before>>
addonVars == <<registered, addon_entry, prefs, keyconfigs_addon, _addon_keymaps, keymaps>>
sceneVars == <<bpy_objects, modifiers, cycles, eevee>>
vars == <<has_settings, call, ret, animVars, blinkVars, camVars, snapVars, holdVars,
          addonVars, sceneVars>>

\* What an operator of one family leaves alone.
OnlyKeyframes ==
    UNCHANGED <<has_settings, lock, selected_editable_fcurves, selected_objects,
                active_object, selected_pose_bones, active_pose_bone, blinkVars,
                camVars, snapVars, holdVars, addonVars, sceneVars>>
OnlyShapeKeys ==
    UNCHANGED <<has_settings, animVars, shape_keys, key_block_before, camVars, snapVars,
                holdVars, addonVars, sceneVars>>
OnlyCameras ==
    UNCHANGED <<has_settings, animVars, blinkVars, snapVars, holdVars, addonVars,
                sceneVars>>
OnlyViewport ==
    UNCHANGED <<has_settings, animVars, blinkVars, camVars, edit_objects, holdVars,
                addonVars, sceneVars>>
OnlyHold ==
    UNCHANGED <<has_settings, lock, selected_editable_fcurves, selected_objects,
                active_object, selected_pose_bones, active_pose_bone, blinkVars,
                camVars, snapVars, keyframe_points_before, addonVars, sceneVars>>
OnlyAddon ==
    UNCHANGED <<ret, animVars, blinkVars, camVars, snapVars, holdVars, keyconfigs_addon,
                sceneVars>>

(***************************************************************************)
(* Bounds of the documents the specifications start from.                  *)
(***************************************************************************)
MaxFrame == 1       \* keyframes start on frames 0..MaxFrame
MaxKeys == 2        \* keyframes per curve at the start

Frames == 0..MaxFrame
Deltas == {-1, 0, 2}                       \* frame offsets and stagger steps tried
OffsetModes == {"UNIFORM", "ORDER", "NAME"}

(***************************************************************************)
(* The document: four F-Curves.  "Rig" is an armature whose action         *)
(* animates two pose bones; "Face" is a mesh with no object action and a   *)
(* shape-key action; the camera's action animates its location.            *)
(***************************************************************************)
Curves == {1, 2, 3, 4}
Objects == {"Rig", "Face"}
PoseBones == {"A", "B"}

FCurve ==
    (1 :> [id_data |-> "RigAction", group |-> "A",
           data_path |-> "pose.bones[A].location", array_index |-> 0]) @@
    (2 :> [id_data |-> "RigAction", group |-> "B",
           data_path |-> "pose.bones[B].location", array_index |-> 0]) @@
    (3 :> [id_data |-> "FaceKeyAction", group |-> "",
           data_path |-> "key_blocks[Blink].value", array_index |-> 0]) @@
    (4 :> [id_data |-> "CameraAction", group |-> "",
           data_path |-> "location", array_index |-> 0])

\* obj.animation_data.action.fcurves and obj.data.shape_keys.animation_data.action.fcurves
ActionFCurves(obj) ==
    IF obj = "Rig" THEN <<1, 2>> ELSE IF obj = "Camera" THEN <<4>> ELSE <<>>
ShapeKeyFCurves(obj) == IF obj = "Face" THEN <<3>> ELSE <<>>

(***************************************************************************)
(* Beside the two animated objects a document may hold a ground mesh, a    *)
(* light and cameras.  "Face" is parented to "Rig".  The collection        *)
(* "Props" holds the two meshes and has the child collection "Lights".     *)
(***************************************************************************)
None == "None"

\* A datablock that does not exist
Absent == [absent |-> TRUE]

CameraObjects == {"Camera", "YABQOLA RefCam"}   \* objects of type CAMERA

AllObjects == <<"Rig", "Face", "Floor", "Lamp", "Camera", "YABQOLA RefCam">>

ObjectType ==
    [obj \in {"Rig", "Face", "Floor", "Lamp"} \cup CameraObjects |->
        CASE obj = "Rig" -> "ARMATURE"
          [] obj \in {"Face", "Floor"} -> "MESH"
          [] obj = "Lamp" -> "LIGHT"
          [] OTHER -> "CAMERA"]

\* A camera object is in the scene while it has its datablock.
in_scene(obj) ==
    IF obj \in CameraObjects THEN camera_data[obj] # Absent ELSE bpy_objects[obj].in_scene

scene_objects == SelectSeq(AllObjects, in_scene)        \* scene.objects

children_recursive(obj) ==
    IF obj = "Rig" THEN SelectSeq(<<"Face">>, in_scene) ELSE <<>>

Collections ==
    [Props  |-> [objects |-> <<"Face", "Floor">>, children |-> <<"Lights">>],
     Lights |-> [objects |-> <<"Lamp", "Face">>, children |-> <<>>]]

\* A keyframe: control point co = (x, y) and the x of its two handles.
Keyframe(x, sel) == [x |-> x, y |-> x, hl |-> x - 1, hr |-> x + 1, sel |-> sel]

RECURSIVE KeySeqsFrom(_, _)
\* Chronologically ordered keyframe lists of at most n keys on frames lo..MaxFrame.
KeySeqsFrom(lo, n) ==
    IF n = 0 \/ lo > MaxFrame THEN {<<>>}
    ELSE {<<>>} \cup
         UNION {{<<Keyframe(x, s)>> \o rest : rest \in KeySeqsFrom(x + 1, n - 1)} :
                <<x, s>> \in (lo..MaxFrame) \X BOOLEAN}

KeySeqs == KeySeqsFrom(0, MaxKeys)
FewKeySeqs == {<<>>, <<Keyframe(0, TRUE)>>, <<Keyframe(0, FALSE), Keyframe(1, TRUE)>>}
CameraKeys == <<Keyframe(0, TRUE), Keyframe(1, FALSE)>>

(***************************************************************************)
(* utils/animation.py                                                      *)
(***************************************************************************)
fcurve_key(c) == <<FCurve[c].id_data, FCurve[c].data_path, FCurve[c].array_index>>

iter_fcurves_for_object(obj, include_shape_keys) ==
    IF obj = None THEN <<>>
    ELSE ActionFCurves(obj) \o (IF include_shape_keys THEN ShapeKeyFCurves(obj) ELSE <<>>)

\* Curves animating one pose bone of the armature that owns it.
iter_fcurves_for_pose_bone(bone) ==
    SelectSeq(ActionFCurves("Rig"), LAMBDA c : FCurve[c].group = bone)

RECURSIVE CollectUnseen(_, _)
\* The two collection loops of gather_target_fcurves: skip locked curves and
\* curves whose key was seen, append the rest.
CollectUnseen(result, fcurves) ==
    IF fcurves = <<>> THEN result
    ELSE LET c == Head(fcurves)
             skip == lock[c] \/ \E i \in DOMAIN result : fcurve_key(result[i]) = fcurve_key(c)
         IN CollectUnseen(IF skip THEN result ELSE Append(result, c), Tail(fcurves))

RECURSIVE ObjectsFCurves(_, _)
ObjectsFCurves(objects, include_shape_keys) ==
    IF objects = <<>> THEN <<>>
    ELSE iter_fcurves_for_object(Head(objects), include_shape_keys)
         \o ObjectsFCurves(Tail(objects), include_shape_keys)

InSeq(x, s) == \E i \in DOMAIN s : s[i] = x

gather_target_fcurves(only_selected_curves, include_shape_keys) ==
    LET result == CollectUnseen(<<>>, selected_editable_fcurves)
        objects == IF active_object # None /\ ~InSeq(active_object, selected_objects)
                   THEN Append(selected_objects, active_object)
                   ELSE selected_objects
    IN IF result # <<>> /\ only_selected_curves THEN result
       ELSE CollectUnseen(result, ObjectsFCurves(objects, include_shape_keys))

RECURSIVE InsertByTime(_, _)
InsertByTime(sorted, k) ==
    IF sorted = <<>> THEN <<k>>
    ELSE IF k.x < Head(sorted).x THEN <<k>> \o sorted
    ELSE <<Head(sorted)>> \o InsertByTime(Tail(sorted), k)

RECURSIVE SortByTime(_)
SortByTime(points) ==
    IF points = <<>> THEN <<>>
    ELSE InsertByTime(SortByTime(SubSeq(points, 1, Len(points) - 1)), points[Len(points)])

\* FCurve.update(): the host puts the keyframes back in chronological order.
fcurve_update(points) == SortByTime(points)

\* ShiftedPoint with the right handle left where it was
ShiftedPoint_LeftHandleOnly(k, frame_delta) ==
    [k EXCEPT !.x = @ + frame_delta, !.hl = @ + frame_delta]

ShiftedPoint(k, frame_delta) ==
    [k EXCEPT !.x = @ + frame_delta, !.hl = @ + frame_delta, !.hr = @ + frame_delta]

\* shift_keyframes moving the keyframes and returning a count of zero
shift_keyframes_ReportsNone(points, frame_delta, only_selected) ==
    [points |-> [i \in DOMAIN points |->
                    IF only_selected /\ ~points[i].sel THEN points[i]
                    ELSE ShiftedPoint(points[i], frame_delta)],
     moved |-> 0]

\* shift_keyframes on a curve whose keyframes are `points`: the keyframes it
\* leaves and the count it returns.
shift_keyframes(points, frame_delta, only_selected) ==
    LET skipped(k) == only_selected /\ ~k.sel
        moved == Cardinality({i \in DOMAIN points : ~skipped(points[i])})
        shifted == [i \in DOMAIN points |->
                        IF skipped(points[i]) THEN points[i]
                        ELSE ShiftedPoint(points[i], frame_delta)]
    IN [points |-> IF moved # 0 THEN fcurve_update(shifted) ELSE shifted,
        moved |-> moved]

(***************************************************************************)
(* What an invocation leaves behind when it returns.                       *)
(***************************************************************************)
\* settings_is_None with the check taken to pass
settings_is_None_Never == FALSE

\* settings = getattr(context.scene, "animation_qol_settings", None); settings is None
settings_is_None == ~has_settings

NoCall == [op |-> "none"]
\* No invocation has begun: the host runs one operator at a time.
Idle == ret = "NONE" /\ call = NoCall
Returns(status, locals) == call' = locals /\ ret' = status

(***************************************************************************)
(* operators/keyframe_offset.py                                            *)
(***************************************************************************)
\* Python's order on the strings the sort key is made of.
StrOrder == <<"", "A", "B", "CameraAction", "FaceKeyAction", "RigAction",
              "key_blocks[Blink].value", "location", "pose.bones[A].location",
              "pose.bones[B].location">>
StrRank(s) == CHOOSE i \in DOMAIN StrOrder : StrOrder[i] = s

sort_key_by_name(c) ==
    <<StrRank(FCurve[c].id_data), StrRank(FCurve[c].group),
      StrRank(FCurve[c].data_path), FCurve[c].array_index>>

\* Tuple comparison: a < b.
TupleLess(a, b) ==
    \E i \in DOMAIN a : a[i] < b[i] /\ \A j \in 1..(i - 1) : a[j] = b[j]

RECURSIVE InsertByName(_, _)
InsertByName(sorted, c) ==
    IF sorted = <<>> THEN <<c>>
    ELSE IF TupleLess(sort_key_by_name(c), sort_key_by_name(Head(sorted)))
         THEN <<c>> \o sorted
    ELSE <<Head(sorted)>> \o InsertByName(Tail(sorted), c)

\* sorted() leaving the list as gathered
SortedByName_AsGathered(fcurves) == fcurves

RECURSIVE SortedByName(_)
\* sorted(fcurves, key=_sort_key_by_name), a stable sort
SortedByName(fcurves) ==
    IF fcurves = <<>> THEN <<>>
    ELSE InsertByName(SortedByName(SubSeq(fcurves, 1, Len(fcurves) - 1)),
                      fcurves[Len(fcurves)])

\* IsZero with the check left out
IsZero_Never(frame_delta) == FALSE

\* "if frame_delta == 0" (and "if step == 0" in stagger_timing.py)
IsZero(frame_delta) == frame_delta = 0

RECURSIVE OffsetLoop(_, _, _, _, _, _)
\* The loop over ordered_fcurves from position `index` (0-based) on: the
\* keyframes of every curve afterwards, and moved_total.
OffsetLoop(kp, ordered_fcurves, index, frame_delta, only_selected, mode) ==
    IF index >= Len(ordered_fcurves) THEN [kp |-> kp, moved_total |-> 0]
    ELSE LET fcurve == ordered_fcurves[index + 1]
             curve_delta == IF mode = "UNIFORM" THEN frame_delta ELSE frame_delta * index
             skip == mode # "UNIFORM" /\ curve_delta = 0
             shift == shift_keyframes(kp[fcurve], curve_delta, only_selected)
             rest == OffsetLoop(IF skip THEN kp ELSE [kp EXCEPT ![fcurve] = shift.points],
                                ordered_fcurves, index + 1, frame_delta, only_selected, mode)
         IN [kp |-> rest.kp,
             moved_total |-> (IF skip THEN 0 ELSE shift.moved) + rest.moved_total]

\* ANIMATIONQOL_OT_offset_keyframes.execute
offset_keyframes(use_scene_settings, settings, self) ==
    LET frame_delta == IF use_scene_settings THEN settings.keyframe_frame_offset
                       ELSE self.frame_delta
        only_selected == IF use_scene_settings THEN settings.keyframe_only_selected_keys
                         ELSE ~self.affect_all_keys
        mode == IF use_scene_settings THEN settings.keyframe_offset_mode
                ELSE self.offset_mode
        locals == [op |-> "offset_keyframes", frame_delta |-> frame_delta,
                   only_selected |-> only_selected, mode |-> mode]
        selected == gather_target_fcurves(TRUE, TRUE)
        fcurves == IF selected # <<>> THEN selected ELSE gather_target_fcurves(FALSE, TRUE)
        ordered_fcurves == IF mode = "NAME" THEN SortedByName(fcurves) ELSE fcurves
        done == OffsetLoop(keyframe_points, ordered_fcurves, 0, frame_delta,
                           only_selected, mode)
    IN /\ Idle
       /\ OnlyKeyframes
       /\ IF settings_is_None
          THEN Returns("CANCELLED", [op |-> "offset_keyframes"])
               /\ UNCHANGED keyframe_points
          ELSE IF IsZero(frame_delta) \/ fcurves = <<>>
          THEN Returns("CANCELLED", locals) /\ UNCHANGED keyframe_points
          ELSE /\ keyframe_points' = done.kp
               /\ Returns(IF done.moved_total = 0 THEN "CANCELLED" ELSE "FINISHED", locals)

OffsetSettings ==
    [keyframe_frame_offset : Deltas, keyframe_only_selected_keys : BOOLEAN,
     keyframe_offset_mode : OffsetModes]
OffsetProps == [frame_delta : Deltas, affect_all_keys : BOOLEAN, offset_mode : OffsetModes]
OffsetSettingsDefault ==
    [keyframe_frame_offset |-> 2, keyframe_only_selected_keys |-> TRUE,
     keyframe_offset_mode |-> "UNIFORM"]
OffsetPropsDefault == [frame_delta |-> 0, affect_all_keys |-> FALSE, offset_mode |-> "UNIFORM"]

(***************************************************************************)
(* operators/stagger_timing.py                                             *)
(***************************************************************************)
RECURSIVE ShiftCurves(_, _, _, _)
\* The inner loop of _stagger_objects and _stagger_pose_bones: shift every
\* unlocked curve of `fcurves` by frame_delta.
ShiftCurves(kp, fcurves, frame_delta, selected_only) ==
    IF fcurves = <<>> THEN [kp |-> kp, moved_total |-> 0]
    ELSE LET fcurve == Head(fcurves)
             shift == shift_keyframes(kp[fcurve], frame_delta, selected_only)
             rest == ShiftCurves(IF lock[fcurve] THEN kp
                                 ELSE [kp EXCEPT ![fcurve] = shift.points],
                                 Tail(fcurves), frame_delta, selected_only)
         IN [kp |-> rest.kp,
             moved_total |-> (IF lock[fcurve] THEN 0 ELSE shift.moved) + rest.moved_total]

\* frame_delta with every object after the first moved by one step
stagger_frame_delta_OneStep(index, step) == IF index = 0 THEN 0 ELSE step

\* frame_delta = index * step
stagger_frame_delta(index, step) == index * step

RECURSIVE stagger_objects(_, _, _, _, _, _)
\* _stagger_objects from position `index` (0-based) on
stagger_objects(kp, objects, index, step, selected_only, include_shape_keys) ==
    IF index >= Len(objects) THEN [kp |-> kp, moved_total |-> 0]
    ELSE LET frame_delta == stagger_frame_delta(index, step)
             shift == ShiftCurves(kp, iter_fcurves_for_object(objects[index + 1],
                                                              include_shape_keys),
                                  frame_delta, selected_only)
             rest == stagger_objects(IF frame_delta = 0 THEN kp ELSE shift.kp, objects,
                                     index + 1, step, selected_only, include_shape_keys)
         IN [kp |-> rest.kp,
             moved_total |-> (IF frame_delta = 0 THEN 0 ELSE shift.moved_total)
                             + rest.moved_total]

RECURSIVE stagger_pose_bones(_, _, _, _, _)
\* _stagger_pose_bones from position `index` (0-based) on
stagger_pose_bones(kp, pose_bones, index, step, selected_only) ==
    IF index >= Len(pose_bones) THEN [kp |-> kp, moved_total |-> 0]
    ELSE LET frame_delta == index * step
             shift == ShiftCurves(kp, iter_fcurves_for_pose_bone(pose_bones[index + 1]),
                                  frame_delta, selected_only)
             rest == stagger_pose_bones(IF frame_delta = 0 THEN kp ELSE shift.kp,
                                        pose_bones, index + 1, step, selected_only)
         IN [kp |-> rest.kp,
             moved_total |-> (IF frame_delta = 0 THEN 0 ELSE shift.moved_total)
                             + rest.moved_total]

Reversed(s) == [i \in DOMAIN s |-> s[Len(s) + 1 - i]]

\* ANIMATIONQOL_OT_stagger_keyframes.execute
stagger_keyframes(use_scene_settings, settings, self) ==
    LET step == IF use_scene_settings THEN settings.stagger_step ELSE self.step
        selected_only == IF use_scene_settings THEN settings.stagger_selected_only
                         ELSE self.selected_only
        reverse_order == IF use_scene_settings THEN settings.stagger_reverse_order
                         ELSE self.reverse_order
        include_shape_keys == IF use_scene_settings THEN settings.stagger_include_shape_keys
                              ELSE self.include_shape_keys
        locals == [op |-> "stagger_keyframes", step |-> step,
                   selected_only |-> selected_only, reverse_order |-> reverse_order,
                   include_shape_keys |-> include_shape_keys]
        all_bones == IF active_pose_bone # None /\ ~InSeq(active_pose_bone, selected_pose_bones)
                     THEN Append(selected_pose_bones, active_pose_bone)
                     ELSE selected_pose_bones
        use_bones == Len(all_bones) > 1
        pose_bones == IF use_bones /\ reverse_order THEN Reversed(all_bones) ELSE all_bones
        found == IF selected_objects = <<>> /\ active_object # None
                 THEN <<active_object>> ELSE selected_objects
        objects == IF reverse_order THEN Reversed(found) ELSE found
        done == IF use_bones
                THEN stagger_pose_bones(keyframe_points, pose_bones, 0, step, selected_only)
                ELSE stagger_objects(keyframe_points, objects, 0, step, selected_only,
                                     include_shape_keys)
    IN /\ Idle
       /\ OnlyKeyframes
       /\ IF settings_is_None
          THEN Returns("CANCELLED", [op |-> "stagger_keyframes"])
               /\ UNCHANGED keyframe_points
          ELSE IF IsZero(step) \/ (~use_bones /\ Len(found) <= 1)
          THEN Returns("CANCELLED", locals) /\ UNCHANGED keyframe_points
          ELSE /\ keyframe_points' = done.kp
               /\ Returns(IF done.moved_total = 0 THEN "CANCELLED" ELSE "FINISHED", locals)

StaggerSettings ==
    [stagger_step : Deltas, stagger_selected_only : BOOLEAN,
     stagger_reverse_order : BOOLEAN, stagger_include_shape_keys : BOOLEAN]
StaggerProps ==
    [step : Deltas, selected_only : BOOLEAN, reverse_order : BOOLEAN,
     include_shape_keys : BOOLEAN]
StaggerSettingsDefault ==
    [stagger_step |-> 3, stagger_selected_only |-> TRUE,
     stagger_reverse_order |-> FALSE, stagger_include_shape_keys |-> TRUE]
StaggerPropsDefault ==
    [step |-> 3, selected_only |-> TRUE, reverse_order |-> FALSE, include_shape_keys |-> TRUE]

(***************************************************************************)
(* operators/auto_blink.py                                                 *)
(***************************************************************************)
Max(a, b) == IF a >= b THEN a ELSE b
Min(a, b) == IF a <= b THEN a ELSE b

\* getattr(obj.data, "shape_keys", None) is there
HasShapeKeys(obj) == obj \in Objects /\ shape_keys[obj] # "none"

\* _iter_target_objects
iter_target_objects(blink_use_selected_objects) ==
    SelectSeq(IF blink_use_selected_objects THEN selected_objects ELSE scene_objects,
              HasShapeKeys)

\* _insert_keyframe: block.value = value; block.keyframe_insert("value", frame=frame)
insert_keyframe(block, value, frame) ==
    [value |-> value,
     keyframes |-> [f \in DOMAIN block.keyframes \cup {frame} |->
                        IF f = frame THEN value ELSE block.keyframes[f]]]

next_gap_Unclamped(interval, interval_variation) == interval + interval_variation

\* The gap to the next blink: max(1, interval + interval_variation)
next_gap(interval, interval_variation) == Max(1, interval + interval_variation)

NotBlinking == [pc |-> "idle"]

\* execute up to the loop over the targets
generate_auto_blinks(settings) ==
    LET frame_start == Min(settings.blink_frame_start, settings.blink_frame_end)
        frame_end == Max(settings.blink_frame_start, settings.blink_frame_end)
        close_frames == Max(1, settings.blink_close_frames)
        open_frames == Max(1, settings.blink_open_frames)
        hold_frames == Max(0, settings.blink_hold_frames)
        locals == [op |-> "generate_auto_blinks",
                   frame_start |-> frame_start, frame_end |-> frame_end,
                   interval |-> Max(1, settings.blink_interval),
                   randomness |-> Max(0, settings.blink_interval_random),
                   close_frames |-> close_frames, open_frames |-> open_frames,
                   hold_frames |-> hold_frames,
                   blink_length |-> close_frames + hold_frames + open_frames,
                   blink_strength |-> settings.blink_strength]
        targets == iter_target_objects(settings.blink_use_selected_objects)
    IN /\ Idle /\ blink.pc = "idle"
       /\ OnlyShapeKeys
       /\ UNCHANGED key_block
       /\ IF settings_is_None
          THEN Returns("CANCELLED", [op |-> "generate_auto_blinks"]) /\ UNCHANGED blink
          ELSE IF targets = <<>> \/ settings.blink_shape_key_name = ""
          THEN Returns("CANCELLED", locals) /\ UNCHANGED blink
          ELSE /\ call' = locals
               /\ UNCHANGED ret
               /\ blink' = [pc |-> "for", targets |-> targets, processed |-> 0,
                            missing |-> <<>>]

\* One pass of "for obj in targets" up to its while loop, or the code after
\* the for loop when the targets are exhausted.
blink_for_target ==
    /\ blink.pc = "for"
    /\ OnlyShapeKeys
    /\ IF blink.targets = <<>>
       THEN /\ Returns(IF blink.processed = 0 THEN "CANCELLED" ELSE "FINISHED", call)
            /\ blink' = [pc |-> "done", processed |-> blink.processed,
                         missing |-> blink.missing]
            /\ UNCHANGED key_block
       ELSE LET obj == Head(blink.targets)
            IN /\ UNCHANGED <<call, ret>>
               /\ IF shape_keys[obj] # "named"
                  THEN /\ blink' = [blink EXCEPT !.targets = Tail(@),
                                                 !.missing = Append(@, obj)]
                       /\ UNCHANGED key_block
                  ELSE /\ key_block' =
                            [key_block EXCEPT ![obj] =
                                insert_keyframe(insert_keyframe(@, 0, call.frame_start),
                                                0, call.frame_end + 1)]
                       /\ blink' = [pc |-> "while", targets |-> blink.targets,
                                    processed |-> blink.processed,
                                    missing |-> blink.missing,
                                    current_frame |-> call.frame_start,
                                    blink_count |-> 0]

\* The while loop's test and, when it holds, one iteration; when it fails,
\* the rest of the for loop's body.
blink_while(interval_variation) ==
    /\ blink.pc = "while"
    /\ OnlyShapeKeys
    /\ UNCHANGED <<call, ret>>
    /\ IF blink.current_frame + call.blink_length <= call.frame_end
       THEN LET obj == Head(blink.targets)
                blink_start == blink.current_frame
                close_end == blink_start + call.close_frames
                hold_end == close_end + call.hold_frames
                open_end == hold_end + call.open_frames
                k1 == insert_keyframe(key_block[obj], 0,
                                      Max(call.frame_start, blink_start - 1))
                k2 == insert_keyframe(k1, call.blink_strength, close_end)
                k3 == IF call.hold_frames # 0
                      THEN insert_keyframe(k2, call.blink_strength, hold_end) ELSE k2
                k4 == insert_keyframe(k3, 0, open_end)
            IN /\ key_block' = [key_block EXCEPT ![obj] = k4]
               /\ blink' = [blink EXCEPT
                               !.blink_count = @ + 1,
                               !.current_frame =
                                   open_end + next_gap(call.interval, interval_variation)]
       ELSE /\ UNCHANGED key_block
            /\ blink' = [pc |-> "for", targets |-> Tail(blink.targets),
                         processed |-> blink.processed
                                       + (IF blink.blink_count # 0 THEN 1 ELSE 0),
                         missing |-> blink.missing]

\* rng.randint(-randomness, randomness) if randomness else 0
BlinkWhile ==
    /\ blink.pc = "while"
    /\ \E interval_variation \in (0 - call.randomness)..call.randomness :
           blink_while(interval_variation)

(***************************************************************************)
(* utils/camera.py                                                         *)
(* Lengths are in millimetres, angles in degrees.  The sensors of the      *)
(* model have the 3:2 aspect of the 35 mm frame and the angles are 90 or   *)
(* out of range, so that every quotient below is exact.                    *)
(***************************************************************************)
SENSOR_PRESETS == [FULL_FRAME |-> <<36, 24>>]

ImageSize == [wide |-> <<4, 2>>, tall |-> <<2, 4>>, empty |-> <<0, 0>>]

\* bpy.data.cameras.new: a datablock with the host's defaults
NewCamera ==
    [sensor_width |-> 36, sensor_height |-> 24, sensor_fit |-> "AUTO", lens |-> 50,
     show_background_images |-> FALSE, background_images |-> <<>>]

\* Returns <<scene_camera, camera_data, camera_object>>
ensure_active_scene_camera ==
    IF scene_camera \in CameraObjects /\ camera_data[scene_camera] # Absent
    THEN <<scene_camera, camera_data, scene_camera>>
    ELSE <<"YABQOLA RefCam",
           [camera_data EXCEPT !["YABQOLA RefCam"] = NewCamera],
           "YABQOLA RefCam">>

ensure_camera_background_image(cam, image) ==
    IF image = None THEN cam
    ELSE [cam EXCEPT
            !.show_background_images = TRUE,
            !.background_images =
                Append(SelectSeq(@, LAMBDA slot : ~slot.tagged),
                       [image |-> image, tagged |-> TRUE])]

set_render_resolution_from_image(r, image) ==
    IF image = None THEN r
    ELSE IF ImageSize[image][1] <= 0 \/ ImageSize[image][2] <= 0 THEN r
    ELSE [r EXCEPT !.resolution_x = ImageSize[image][1],
                   !.resolution_y = ImageSize[image][2],
                   !.resolution_percentage = 100]

\* image_aspect >= sensor_aspect, cross-multiplied (sensor_height > 0 here)
pick_sensor_fit(image, sensor_width, sensor_height) ==
    IF image = None THEN "HORIZONTAL"
    ELSE IF ImageSize[image][1] <= 0 \/ ImageSize[image][2] <= 0 THEN "HORIZONTAL"
    ELSE IF ImageSize[image][1] * sensor_height >= ImageSize[image][2] * sensor_width
         THEN "HORIZONTAL" ELSE "VERTICAL"

\* DIAGONAL_35MM / hypot(sensor_width, sensor_height) for a 3:2 sensor
crop_factor_from_sensor(sensor_width, sensor_height) ==
    IF sensor_width <= 0 /\ sensor_height <= 0 THEN 1 ELSE 36 \div sensor_width

ValueError == [raised |-> TRUE]
Value(v) == [raised |-> FALSE, value |-> v]

\* 2 * tan(radians(fov) / 2), for the right angle
TwiceTanHalf(fov_degrees) == IF fov_degrees = 90 THEN 2 ELSE 0

FovInRange(fov_degrees) == ~(fov_degrees <= 0 \/ fov_degrees >= 180)

lens_from_horizontal_fov(sensor_width, fov_degrees) ==
    IF ~FovInRange(fov_degrees) THEN ValueError
    ELSE Value(sensor_width \div TwiceTanHalf(fov_degrees))

lens_from_vertical_fov(sensor_height, fov_degrees) ==
    IF ~FovInRange(fov_degrees) THEN ValueError
    ELSE Value(sensor_height \div TwiceTanHalf(fov_degrees))

(***************************************************************************)
(* operators/reference_camera.py                                           *)
(***************************************************************************)
ImageFiles == [wide |-> "wide", tall |-> "tall"]    \* path |-> image on disk

\* _load_image: None stands for FileNotFoundError / RuntimeError
load_image(path) == IF path \in DOMAIN ImageFiles THEN ImageFiles[path] ELSE None

\* Returns <<image, settings.refcam_image>>
resolve_reference_image(refcam_image_path) ==
    IF refcam_image # None THEN <<refcam_image, refcam_image>>
    ELSE IF refcam_image_path # ""
         THEN <<load_image(refcam_image_path), load_image(refcam_image_path)>>
         ELSE <<None, None>>

\* properties.py: the defaults of the three lens-mode flags
RefcamFlagDefaults ==
    [refcam_use_equiv_35 |-> TRUE, refcam_use_fov_h |-> FALSE, refcam_use_fov_v |-> FALSE]

RefcamFlags == DOMAIN RefcamFlagDefaults

\* The update callbacks, run after their flag was assigned.  Each assignment
\* of False they make runs the assigned flag's own callback, which finds
\* its flag False and returns.
refcam_enable_equiv(self) ==
    IF self.refcam_use_equiv_35
    THEN [self EXCEPT !.refcam_use_fov_h = FALSE, !.refcam_use_fov_v = FALSE]
    ELSE self

refcam_enable_fov_h_KeepsOthers(self) == self

refcam_enable_fov_h(self) ==
    IF self.refcam_use_fov_h
    THEN [self EXCEPT !.refcam_use_equiv_35 = FALSE, !.refcam_use_fov_v = FALSE]
    ELSE self

refcam_enable_fov_v(self) ==
    IF self.refcam_use_fov_v
    THEN [self EXCEPT !.refcam_use_equiv_35 = FALSE, !.refcam_use_fov_h = FALSE]
    ELSE self

\* The user toggles one flag in the panel: the host assigns the negated
\* value, then runs the flag's update callback.
refcam_toggle(flag) ==
    LET assigned == [refcam_flags EXCEPT ![flag] = ~@]
    IN /\ has_settings
       /\ OnlyCameras
       /\ UNCHANGED <<call, ret, scene_camera, camera_data, render, refcam_image>>
       /\ refcam_flags' =
            IF flag = "refcam_use_equiv_35" THEN refcam_enable_equiv(assigned)
            ELSE IF flag = "refcam_use_fov_h" THEN refcam_enable_fov_h(assigned)
            ELSE refcam_enable_fov_v(assigned)

compute_lens(settings, sensor_width, sensor_height) ==
    IF settings.refcam_use_fov_h
    THEN lens_from_horizontal_fov(sensor_width, settings.refcam_fov_h_deg)
    ELSE IF settings.refcam_use_fov_v
    THEN lens_from_vertical_fov(sensor_height, settings.refcam_fov_v_deg)
    ELSE IF settings.refcam_use_equiv_35
    THEN IF crop_factor_from_sensor(sensor_width, sensor_height) <= 0
         THEN ValueError
         ELSE Value(settings.refcam_equiv_35_mm
                    \div crop_factor_from_sensor(sensor_width, sensor_height))
    ELSE Value(settings.refcam_direct_lens_mm)

refcam_load_image(settings) ==
    LET path == settings.refcam_image_path
        image == load_image(path)
        locals == [op |-> "refcam_load_image", path |-> path]
    IN /\ Idle
       /\ OnlyCameras
       /\ UNCHANGED refcam_flags
       /\ UNCHANGED <<scene_camera, camera_data>>
       /\ IF settings_is_None
          THEN Returns("CANCELLED", [op |-> "refcam_load_image"])
               /\ UNCHANGED <<render, refcam_image>>
          ELSE IF path = "" \/ image = None
          THEN Returns("CANCELLED", locals) /\ UNCHANGED <<render, refcam_image>>
          ELSE /\ refcam_image' = image
               /\ render' = set_render_resolution_from_image(render, image)
               /\ Returns("FINISHED", locals)

refcam_apply(settings) ==
    LET sensor_width == IF settings.refcam_sensor_preset # "CUSTOM"
                        THEN SENSOR_PRESETS[settings.refcam_sensor_preset][1]
                        ELSE settings.refcam_sensor_width
        sensor_height == IF settings.refcam_sensor_preset # "CUSTOM"
                         THEN SENSOR_PRESETS[settings.refcam_sensor_preset][2]
                         ELSE settings.refcam_sensor_height
        resolved == resolve_reference_image(settings.refcam_image_path)
        image == resolved[1]
        ensured == ensure_active_scene_camera
        camera_object == ensured[3]
        sensor_fit == IF settings.refcam_override_fit THEN settings.refcam_sensor_fit
                      ELSE pick_sensor_fit(image, sensor_width, sensor_height)
        with_sensor == [ensured[2][camera_object] EXCEPT
                           !.sensor_width = sensor_width,
                           !.sensor_height = sensor_height,
                           !.sensor_fit = sensor_fit]
        lens_mm == compute_lens(settings, sensor_width, sensor_height)
        with_lens == [with_sensor EXCEPT !.lens = Max(1, lens_mm.value)]
        locals == [op |-> "refcam_apply", sensor_width |-> sensor_width,
                   sensor_height |-> sensor_height, image |-> image,
                   lens_error |-> lens_mm.raised,
                   refcam_direct_lens_mm |-> settings.refcam_direct_lens_mm]
    IN /\ Idle
       /\ OnlyCameras
       /\ UNCHANGED refcam_flags
       /\ IF settings_is_None
          THEN Returns("CANCELLED", [op |-> "refcam_apply"]) /\ UNCHANGED camVars
          ELSE IF sensor_width <= 0 \/ sensor_height <= 0
          THEN /\ Returns("CANCELLED", [op |-> "refcam_apply",
                                        sensor_width |-> sensor_width,
                                        sensor_height |-> sensor_height])
               /\ UNCHANGED camVars
          ELSE /\ refcam_image' = resolved[2]
               /\ scene_camera' = ensured[1]
               /\ IF lens_mm.raised
                  THEN /\ camera_data' = [ensured[2] EXCEPT ![camera_object] = with_sensor]
                       /\ UNCHANGED render
                       /\ Returns("CANCELLED", locals)
                  ELSE /\ camera_data' =
                            [ensured[2] EXCEPT ![camera_object] =
                                IF settings.refcam_add_background
                                THEN ensure_camera_background_image(with_lens, image)
                                ELSE with_lens]
                       /\ render' = set_render_resolution_from_image(render, image)
                       /\ Returns("FINISHED", locals)

(***************************************************************************)
(* operators/quick_snap.py                                                 *)
(* Positions are points of one axis; every matrix_world is a translation,  *)
(* so that _world_to_local_vector is the identity on translations.         *)
(***************************************************************************)
MaxCoord == 2
Points == 0..MaxCoord

\* A Vector, or a _PickInfo's location; NoVector is None in their place
Vector(p) == <<p>>
NoVector == <<>>

\* ANIMATIONQOL_OT_quick_snap.__init__
NewSnap ==
    [running |-> FALSE, _stage |-> "SOURCE", _source_point |-> NoVector,
     _area |-> None, _region |-> None, _rv3d |-> None]

Range(seq) == {seq[i] : i \in DOMAIN seq}

\* _iter_edit_objects
iter_edit_objects == edit_objects

\* _any_selected_vertices
any_selected_vertices ==
    \E obj \in Range(iter_edit_objects) : \E i \in DOMAIN verts[obj] : verts[obj][i].select

\* The objects a restricted pick accepts: _object_in_selection for a ray
\* hit, _candidate_objects for an origin picked on screen.
candidate_objects(restrict) ==
    IF view.mode = "OBJECT"
    THEN IF restrict THEN Range(selected_objects) ELSE Objects
    ELSE IF view.mode = "EDIT_MESH" THEN Range(iter_edit_objects)
    ELSE {}

\* _pick_point: the picks the ray cast and the screen-space searches can
\* yield, None included; a hit location is any point of the axis.
pick_point(restrict_to_selection) ==
    IF snap._region = None \/ snap._rv3d = None THEN {NoVector}
    ELSE IF restrict_to_selection /\ candidate_objects(TRUE) = {} THEN {NoVector}
    ELSE {NoVector} \cup {Vector(p) : p \in Points}

\* _apply_translation: <<object_location, verts, moved>>
apply_translation(translation) ==
    IF view.mode = "OBJECT"
    THEN <<[obj \in Objects |->
                IF obj \in Range(selected_objects)
                THEN object_location[obj] + translation ELSE object_location[obj]],
           verts, selected_objects # <<>>>>
    ELSE IF view.mode = "EDIT_MESH"
    THEN <<object_location,
           [obj \in Objects |->
                IF obj \in Range(iter_edit_objects)
                THEN [i \in DOMAIN verts[obj] |->
                        IF verts[obj][i].select
                        THEN [verts[obj][i] EXCEPT !.co = @ + translation]
                        ELSE verts[obj][i]]
                ELSE verts[obj]],
           any_selected_vertices>>
    ELSE <<object_location, verts, FALSE>>

set_header_IgnoresNone(v, area, message) ==
    IF area # None /\ message # None THEN [v EXCEPT !.header_text = message] ELSE v

\* _set_header / _clear_header
set_header(v, area, message) == IF area # None THEN [v EXCEPT !.header_text = message] ELSE v

stored_source_point_None(pick) == NoVector

\* self._source_point = Vector(pick.location)
stored_source_point(pick) == pick

StageAfterSource_Stays == "SOURCE"

\* self._stage = "DEST"
StageAfterSource == "DEST"

quick_snap_invoke ==
    /\ Idle /\ ~snap.running
    /\ OnlyViewport
    /\ UNCHANGED <<object_location, verts>>
    /\ call' = [op |-> "quick_snap.invoke"]
    /\ IF \/ view.area_type # "VIEW_3D"
          \/ view.region_type # "WINDOW"
          \/ view.mode \notin {"OBJECT", "EDIT_MESH"}
          \/ (view.mode = "OBJECT" /\ selected_objects = <<>>)
          \/ (view.mode = "EDIT_MESH" /\ ~any_selected_vertices)
       THEN ret' = "CANCELLED" /\ UNCHANGED <<view, snap, geometry_before>>
       ELSE /\ geometry_before' = <<object_location, verts>>
            /\ snap' = [running |-> TRUE, _stage |-> "SOURCE", _source_point |-> NoVector,
                        _area |-> view.area_type, _region |-> view.region_type,
                        _rv3d |-> "region_3d"]
            /\ view' = set_header(view, view.area_type, "Quick Snap: pick source point")
            /\ ret' = "RUNNING_MODAL"

\* modal with ESC or RIGHTMOUSE
quick_snap_cancel(event) ==
    /\ snap.running
    /\ event.type \in {"ESC", "RIGHTMOUSE"}
    /\ OnlyViewport
    /\ UNCHANGED <<object_location, verts, geometry_before>>
    /\ view' = set_header(view, snap._area, None)
    /\ snap' = [snap EXCEPT !.running = FALSE]
    /\ Returns("CANCELLED", [op |-> "quick_snap.modal", event |-> event])

\* modal with a left press: _handle_click
quick_snap_click(event, pick) ==
    /\ snap.running
    /\ event.type = "LEFTMOUSE" /\ event.value = "PRESS"
    /\ pick \in pick_point(snap._stage = "SOURCE")
    /\ OnlyViewport
    /\ UNCHANGED geometry_before
    /\ call' = [op |-> "quick_snap.modal", event |-> event, pick |-> pick]
    /\ IF pick = NoVector
       THEN /\ ret' = "RUNNING_MODAL"
            /\ UNCHANGED <<view, object_location, verts, snap>>
       ELSE IF snap._stage = "SOURCE"
       THEN /\ snap' = [snap EXCEPT !._source_point = stored_source_point(pick),
                                    !._stage = StageAfterSource]
            /\ view' = set_header(view, snap._area, "Quick Snap: pick destination point")
            /\ ret' = "RUNNING_MODAL"
            /\ UNCHANGED <<object_location, verts>>
       ELSE /\ snap._source_point # NoVector   \* assert self._source_point is not None
            /\ LET translation == pick[1] - snap._source_point[1]
                   applied == apply_translation(translation)
               IN IF translation = 0
                  THEN UNCHANGED <<object_location, verts>>
                  ELSE object_location' = applied[1] /\ verts' = applied[2]
            /\ view' = set_header(view, snap._area, None)
            /\ snap' = [snap EXCEPT !.running = FALSE]
            /\ ret' = "FINISHED"

quick_snap_pass_through_Blocks(event) ==
    /\ snap.running
    /\ event.type \notin {"ESC", "RIGHTMOUSE"}
    /\ ~(event.type = "LEFTMOUSE" /\ event.value = "PRESS")
    /\ OnlyViewport
    /\ UNCHANGED <<view, object_location, verts, snap, geometry_before>>
    /\ Returns("RUNNING_MODAL", [op |-> "quick_snap.modal", event |-> event])

\* modal with any other event
quick_snap_pass_through(event) ==
    /\ snap.running
    /\ event.type \notin {"ESC", "RIGHTMOUSE"}
    /\ ~(event.type = "LEFTMOUSE" /\ event.value = "PRESS")
    /\ OnlyViewport
    /\ UNCHANGED <<view, object_location, verts, snap, geometry_before>>
    /\ Returns("PASS_THROUGH", [op |-> "quick_snap.modal", event |-> event])

Events ==
    {[type |-> "ESC", value |-> "PRESS"], [type |-> "RIGHTMOUSE", value |-> "PRESS"],
     [type |-> "LEFTMOUSE", value |-> "PRESS"], [type |-> "LEFTMOUSE", value |-> "RELEASE"],
     [type |-> "MOUSEMOVE", value |-> "NOTHING"]}

(***************************************************************************)
(* operators/motion_hold.py                                                *)
(* Here time is counted in ticks of a thousandth of a frame, the smallest  *)
(* handle offset the operator writes.                                      *)
(*                                                                         *)
(* The inner loop walks an iterator that the host created over the         *)
(* curve's keyframe array as it was when the loop began: the array's       *)
(* address and length at that moment.  keyframe_points.insert allocates a  *)
(* new array and frees the old one, so from the first insertion on the     *)
(* iterator, and the `keyframe` it yielded, refer to freed memory.  What   *)
(* such a read yields is a choice: the old contents (memory), or a key of  *)
(* the current array if the block has been reused for it.  A write through *)
(* the dangling `keyframe` is lost, or lands on the current array.  The    *)
(* reads of `source` that follow the insertion inside _duplicate_keyframe  *)
(* are taken to see what the iterator's read saw.                          *)
(***************************************************************************)
TicksPerFrame == 1000

HoldKey(frame, sel, interpolation) ==
    [x |-> frame * TicksPerFrame, y |-> frame,
     hl |-> (frame - 1) * TicksPerFrame, hly |-> frame - 1,
     hr |-> (frame + 1) * TicksPerFrame, hry |-> frame + 1,
     sel |-> sel, interpolation |-> interpolation,
     handle_left_type |-> "AUTO_CLAMPED", handle_right_type |-> "AUTO_CLAMPED"]

\* epsilon = 1e-4 frames is less than a tick
keyframe_exists(points, frame) == \E i \in DOMAIN points : points[i].x = frame

\* The key _duplicate_keyframe inserts for `source`
duplicate_keyframe(source, frame_delta, interpolation, inherit_handles) ==
    LET x == source.x + frame_delta
        y == source.y
        new_key == [x |-> x, y |-> y, hl |-> x - TicksPerFrame, hly |-> y,
                    hr |-> x + TicksPerFrame, hry |-> y,
                    sel |-> TRUE, interpolation |-> interpolation,
                    handle_left_type |-> "AUTO_CLAMPED",
                    handle_right_type |-> "AUTO_CLAMPED"]
    IN IF inherit_handles /\ source.interpolation = "BEZIER"
       THEN [new_key EXCEPT !.hl = x - (source.hr - source.x),
                            !.hly = y - (source.hry - source.y),
                            !.hr = x + 1, !.hry = y,
                            !.handle_left_type = source.handle_right_type,
                            !.handle_right_type = "AUTO_CLAMPED"]
       ELSE IF interpolation = "CONSTANT"
       THEN [new_key EXCEPT !.handle_left_type = "FREE", !.handle_right_type = "FREE",
                            !.hl = x - (TicksPerFrame \div 10), !.hly = y,
                            !.hr = x + (TicksPerFrame \div 10), !.hry = y]
       ELSE new_key

NotHolding == [pc |-> "idle"]

\* execute up to the loop over the curves
insert_motion_hold(settings) ==
    LET fcurves == gather_target_fcurves(settings.hold_only_selected_curves,
                                         settings.hold_include_shape_keys)
        locals == [op |-> "insert_motion_hold",
                   frame_offset |-> Max(1, settings.hold_frame_count) * TicksPerFrame,
                   only_selected_keys |-> settings.hold_only_selected_keys,
                   interpolation |-> settings.hold_interpolation,
                   inherit_handles |-> settings.hold_inherit_handles,
                   fcurves |-> fcurves]
    IN /\ Idle /\ hold.pc = "idle"
       /\ OnlyHold
       /\ UNCHANGED keyframe_points
       /\ IF settings_is_None
          THEN Returns("CANCELLED", [op |-> "insert_motion_hold"]) /\ UNCHANGED hold
          ELSE IF fcurves = <<>>
          THEN Returns("CANCELLED", locals) /\ UNCHANGED hold
          ELSE /\ call' = locals
               /\ UNCHANGED ret
               /\ hold' = [pc |-> "for", fcurves |-> fcurves, edited |-> 0,
                           sources |-> {}]

\* "for fcurve in fcurves" up to the creation of the iterator over its
\* keyframes, or the code after the loop when the curves are exhausted.
hold_for_fcurve ==
    /\ hold.pc = "for"
    /\ OnlyHold
    /\ UNCHANGED keyframe_points
    /\ IF hold.fcurves = <<>>
       THEN /\ Returns(IF hold.edited = 0 THEN "CANCELLED" ELSE "FINISHED", call)
            /\ hold' = [pc |-> "done", edited |-> hold.edited, sources |-> hold.sources]
       ELSE /\ UNCHANGED <<call, ret>>
            /\ hold' = [pc |-> "iter", fcurves |-> hold.fcurves, edited |-> hold.edited,
                        sources |-> hold.sources,
                        slot |-> 1, slots |-> Len(keyframe_points[Head(hold.fcurves)]),
                        memory |-> keyframe_points[Head(hold.fcurves)],
                        freed |-> FALSE, changed |-> FALSE]

\* One step of the iterator and the loop body it leads to, or the end of
\* the inner loop.  `alias` is what a read of freed memory yields: 0 for the
\* old contents, i for the i-th key of the current array; `lands` tells
\* whether a write through the dangling reference reaches the current array.
hold_iterate(alias, lands) ==
    LET fcurve == Head(hold.fcurves)
        points == keyframe_points[fcurve]
        keyframe == IF ~hold.freed THEN points[hold.slot]
                    ELSE IF alias = 0 THEN hold.memory[hold.slot]
                    ELSE points[alias]
        new_frame == keyframe.x + call.frame_offset
        inserts == ~keyframe_exists(points, new_frame)
        inserted == IF inserts
                    THEN InsertByTime(points,
                                      duplicate_keyframe(keyframe, call.frame_offset,
                                                         call.interpolation,
                                                         call.inherit_handles))
                    ELSE points
        dangling == hold.freed \/ inserts
        constant == [keyframe EXCEPT !.interpolation = "CONSTANT"]
    IN /\ hold.pc = "iter"
       /\ OnlyHold
       /\ UNCHANGED <<call, ret>>
       /\ IF hold.slot > hold.slots
          THEN /\ alias = 0 /\ ~lands
               /\ keyframe_points' =
                    IF hold.changed
                    THEN [keyframe_points EXCEPT ![fcurve] = fcurve_update(@)]
                    ELSE keyframe_points
               /\ hold' = [pc |-> "for", fcurves |-> Tail(hold.fcurves),
                           edited |-> hold.edited + (IF hold.changed THEN 1 ELSE 0),
                           sources |-> hold.sources]
          ELSE /\ hold.freed \/ alias = 0
               /\ alias <= Len(points)
               /\ IF call.only_selected_keys /\ ~keyframe.sel
                  THEN /\ ~lands
                       /\ UNCHANGED keyframe_points
                       /\ hold' = [hold EXCEPT !.slot = @ + 1]
                  ELSE /\ lands => (dangling /\ call.interpolation = "CONSTANT"
                                     /\ hold.slot <= Len(inserted))
                       /\ keyframe_points' =
                            [keyframe_points EXCEPT ![fcurve] =
                                IF call.interpolation # "CONSTANT" THEN inserted
                                ELSE IF ~dangling
                                THEN [inserted EXCEPT ![hold.slot] = constant]
                                ELSE IF lands
                                THEN [inserted EXCEPT
                                        ![hold.slot].interpolation = "CONSTANT"]
                                ELSE inserted]
                       /\ hold' = [hold EXCEPT
                                     !.slot = @ + 1,
                                     !.changed = TRUE,
                                     !.freed = dangling,
                                     !.memory = IF call.interpolation = "CONSTANT"
                                                THEN [@ EXCEPT ![hold.slot] = constant]
                                                ELSE @,
                                     !.sources = @ \cup {<<fcurve, keyframe.x>>}]

(***************************************************************************)
(* operators/ease_presets.py                                               *)
(***************************************************************************)
\* _apply_preset_to_keyframe
apply_preset_to_keyframe(keyframe, preset, affect_handles) ==
    CASE preset = "LINEAR" ->
           IF affect_handles
           THEN [keyframe EXCEPT !.interpolation = "LINEAR",
                                 !.handle_left_type = "VECTOR",
                                 !.handle_right_type = "VECTOR"]
           ELSE [keyframe EXCEPT !.interpolation = "LINEAR"]
      [] preset = "CONSTANT" -> [keyframe EXCEPT !.interpolation = "CONSTANT"]
      [] OTHER ->
           IF ~affect_handles
           THEN [keyframe EXCEPT !.interpolation = "BEZIER"]
           ELSE [keyframe EXCEPT
                   !.interpolation = "BEZIER",
                   !.handle_left_type =
                       IF preset = "EASE_OUT" THEN "VECTOR" ELSE "AUTO_CLAMPED",
                   !.handle_right_type =
                       IF preset = "EASE_IN" THEN "VECTOR" ELSE "AUTO_CLAMPED"]

\* ANIMATIONQOL_OT_apply_ease_preset.execute
apply_ease_preset(settings) ==
    LET fcurves == gather_target_fcurves(settings.ease_only_selected_curves,
                                         settings.ease_include_shape_keys)
        \* _iter_target_keyframes skips these
        skipped(k) == settings.ease_only_selected_keys /\ ~k.sel
        changed(c) == \E i \in DOMAIN keyframe_points[c] : ~skipped(keyframe_points[c][i])
        eased(c) == [i \in DOMAIN keyframe_points[c] |->
                        IF skipped(keyframe_points[c][i]) THEN keyframe_points[c][i]
                        ELSE apply_preset_to_keyframe(keyframe_points[c][i],
                                                      settings.ease_preset,
                                                      settings.ease_affect_handles)]
        edited == Cardinality({c \in Curves : InSeq(c, fcurves) /\ changed(c)})
        locals == [op |-> "apply_ease_preset", preset |-> settings.ease_preset,
                   fcurves |-> fcurves, edited |-> edited]
    IN /\ Idle
       /\ OnlyKeyframes
       /\ IF settings_is_None
          THEN Returns("CANCELLED", [op |-> "apply_ease_preset"])
               /\ UNCHANGED keyframe_points
          ELSE IF fcurves = <<>>
          THEN Returns("CANCELLED", locals) /\ UNCHANGED keyframe_points
          ELSE /\ keyframe_points' =
                    [c \in Curves |->
                        IF InSeq(c, fcurves) /\ changed(c) THEN fcurve_update(eased(c))
                        ELSE keyframe_points[c]]
               /\ Returns(IF edited = 0 THEN "CANCELLED" ELSE "FINISHED", locals)

(***************************************************************************)
(* utils/render.py and operators/render_presets.py                         *)
(***************************************************************************)
CYCLES_SAMPLE_PRESETS ==
    [PREVIEW |-> <<64, 32>>, PLAYBLAST |-> <<128, 64>>, STILL_DRAFT |-> <<256, 128>>,
     STILL_FINAL |-> <<1024, 512>>, STILL_CLAY |-> <<256, 128>>, FINAL |-> <<512, 256>>]

EEVEE_SAMPLE_PRESETS ==
    [PREVIEW |-> <<16, 8>>, PLAYBLAST |-> <<32, 16>>, STILL_DRAFT |-> <<128, 64>>,
     STILL_FINAL |-> <<256, 128>>, STILL_CLAY |-> <<96, 48>>, FINAL |-> <<64, 32>>]

\* _apply_output_settings, on scene.render
apply_output_settings(r, preset) ==
    LET blur == [r EXCEPT !.use_motion_blur = (preset = "FINAL")]
    IN CASE preset = "PREVIEW" ->
              [blur EXCEPT !.resolution_percentage = 50, !.file_format = "FFMPEG",
                           !.ffmpeg_format = "MPEG4", !.constant_rate_factor = "MEDIUM"]
         [] preset = "PLAYBLAST" ->
              [blur EXCEPT !.resolution_percentage = 100, !.file_format = "FFMPEG",
                           !.ffmpeg_format = "MPEG4", !.constant_rate_factor = "HIGH"]
         [] preset = "STILL_DRAFT" ->
              [blur EXCEPT !.resolution_percentage = 100, !.file_format = "JPEG",
                           !.color_mode = "RGB", !.quality = 95,
                           !.use_motion_blur = FALSE]
         [] preset = "STILL_FINAL" ->
              [blur EXCEPT !.resolution_percentage = 100, !.file_format = "PNG",
                           !.color_depth = "16", !.color_mode = "RGBA",
                           !.use_motion_blur = FALSE]
         [] preset = "STILL_CLAY" ->
              [blur EXCEPT !.resolution_percentage = 100, !.file_format = "OPEN_EXR",
                           !.color_depth = "16", !.color_mode = "RGB",
                           !.use_motion_blur = FALSE]
         [] preset = "FINAL" ->
              [blur EXCEPT !.resolution_percentage = 100, !.file_format = "PNG",
                           !.color_depth = "16"]
         [] OTHER -> blur

\* _apply_cycles_settings, on scene.cycles
apply_cycles_settings(c, preset) ==
    IF c = Absent THEN c
    ELSE [c EXCEPT
            !.samples = CYCLES_SAMPLE_PRESETS[preset][1],
            !.preview_samples = CYCLES_SAMPLE_PRESETS[preset][2],
            !.use_adaptive_sampling = TRUE,
            !.use_denoising = (preset # "PREVIEW"),
            !.use_preview_denoising =
                IF preset \in {"PREVIEW", "PLAYBLAST"} THEN @ ELSE TRUE]

\* _apply_eevee_settings, on scene.eevee
apply_eevee_settings(e, preset) ==
    IF e = Absent THEN e
    ELSE [e EXCEPT
            !.taa_render_samples = EEVEE_SAMPLE_PRESETS[preset][1],
            !.taa_samples = EEVEE_SAMPLE_PRESETS[preset][2],
            !.use_motion_blur = (preset \notin {"PREVIEW", "PLAYBLAST"}),
            !.use_gtao = (preset # "PREVIEW"),
            !.use_ssr = (preset # "PREVIEW")]

\* What apply_render_preset leaves in scene.render, scene.cycles and scene.eevee
apply_render_preset(preset, adjust_output, adjust_samples) ==
    [render |-> [(IF adjust_output THEN apply_output_settings(render, preset) ELSE render)
                    EXCEPT !.use_simplify =
                        (preset \in {"PREVIEW", "PLAYBLAST", "STILL_CLAY"})],
     cycles |-> IF adjust_samples THEN apply_cycles_settings(cycles, preset) ELSE cycles,
     eevee |-> IF adjust_samples THEN apply_eevee_settings(eevee, preset) ELSE eevee]

\* ANIMATIONQOL_OT_apply_render_preset.execute
ANIMATIONQOL_OT_apply_render_preset(settings) ==
    LET applied == apply_render_preset(settings.render_preset,
                                       settings.render_adjust_output,
                                       settings.render_adjust_samples)
    IN /\ Idle
       /\ UNCHANGED <<has_settings, animVars, blinkVars, scene_camera, camera_data,
                      refcam_image, refcam_flags, snapVars, holdVars, addonVars,
                      bpy_objects, modifiers>>
       /\ IF settings_is_None
          THEN Returns("CANCELLED", [op |-> "apply_render_preset"])
               /\ UNCHANGED <<render, cycles, eevee>>
          ELSE /\ render' = applied.render
               /\ cycles' = applied.cycles
               /\ eevee' = applied.eevee
               /\ Returns("FINISHED", [op |-> "apply_render_preset",
                                       preset |-> settings.render_preset])

(***************************************************************************)
(* operators/noise_randomizer.py                                           *)
(* The modifiers' numbers are in thousandths.  random.uniform(a, b) is     *)
(* a + (b - a) * u for some u of [0, 1): here u = 0 (draw 0) or u = 1/2    *)
(* (draw 1), drawn anew for each call whatever the seed.                   *)
(***************************************************************************)
\* sorted_range returning its arguments as given
sorted_range_AsGiven(value_a, value_b) == <<value_a, value_b>>

sorted_range(value_a, value_b) ==
    IF value_a <= value_b THEN <<value_a, value_b>> ELSE <<value_b, value_a>>

\* random.uniform(a, b) is a + (b - a) * random(); `draw` is random() in
\* halves.  The draws taken are the two ends: a, and b, which rounding lets
\* the result reach.
uniform(range, draw) == range[1] + ((range[2] - range[1]) * draw) \div 2

Draws == {0, 2}

IsNoise(mod) == mod.type = "NOISE"

\* The curves of `fcurves` that get a new modifier
noise_created(fcurves, noise_create_missing) ==
    {c \in Curves : /\ InSeq(c, fcurves)
                    /\ noise_create_missing
                    /\ SelectSeq(modifiers[c], IsNoise) = <<>>}

RECURSIVE noise_slots(_, _)
\* The modifiers the loops visit, in order: <<curve, index in fcurve.modifiers>>
noise_slots(mods, fcurves) ==
    IF fcurves = <<>> THEN <<>>
    ELSE LET c == Head(fcurves)
             indices == SelectSeq([i \in DOMAIN mods[c] |-> i],
                                  LAMBDA i : IsNoise(mods[c][i]))
         IN [k \in DOMAIN indices |-> <<c, indices[k]>>] \o noise_slots(mods, Tail(fcurves))

\* ANIMATIONQOL_OT_randomize_noise_modifiers.execute
randomize_noise_modifiers(include_only_selected_curves, settings) ==
    LET fcurves == gather_target_fcurves(include_only_selected_curves, TRUE)
        phase == sorted_range(settings.noise_phase_min, settings.noise_phase_max)
        offset == sorted_range(settings.noise_offset_min, settings.noise_offset_max)
        strength == sorted_range(settings.noise_strength_min, settings.noise_strength_max)
        scale == sorted_range(settings.noise_scale_min, settings.noise_scale_max)
        created == noise_created(fcurves, settings.noise_create_missing)
        \* fcurve.modifiers.new(type="NOISE") and the two initial values
        new == [type |-> "NOISE", phase |-> 1000, offset |-> 0,
                strength |-> strength[2], scale |-> Max(1, scale[1])]
        mods == [c \in Curves |->
                    IF c \in created THEN Append(modifiers[c], new) ELSE modifiers[c]]
        slots == noise_slots(mods, fcurves)
        slot_of(c, i) == CHOOSE k \in DOMAIN slots : slots[k] = <<c, i>>
        randomized(mod, k, draws) ==
            [mod EXCEPT !.phase = uniform(phase, draws[4 * k - 3]),
                        !.offset = uniform(offset, draws[4 * k - 2]),
                        !.strength = uniform(strength, draws[4 * k - 1]),
                        !.scale = Max(1, uniform(scale, draws[4 * k]))]
        affected == Len(slots)
        locals == [op |-> "randomize_noise_modifiers", fcurves |-> fcurves,
                   include_only_selected_curves |-> include_only_selected_curves,
                   settings |-> settings, phase |-> phase, offset |-> offset, strength |-> strength,
                   scale |-> scale, created |-> Cardinality(created),
                   affected |-> affected]
    IN /\ Idle
       /\ UNCHANGED <<has_settings, animVars, blinkVars, camVars, snapVars, holdVars,
                      addonVars, bpy_objects, cycles, eevee>>
       /\ IF settings_is_None
          THEN /\ Returns("CANCELLED", [op |-> "randomize_noise_modifiers"])
               /\ UNCHANGED modifiers
          ELSE IF fcurves = <<>>
          THEN /\ Returns("CANCELLED", [op |-> "randomize_noise_modifiers",
                                        fcurves |-> fcurves])
               /\ UNCHANGED modifiers
          ELSE /\ \E draws \in [1..(4 * affected) -> Draws] :
                    modifiers' =
                        [c \in Curves |->
                            [i \in DOMAIN mods[c] |->
                                IF InSeq(c, fcurves) /\ IsNoise(mods[c][i])
                                THEN randomized(mods[c][i], slot_of(c, i), draws)
                                ELSE mods[c][i]]]
               /\ Returns(IF affected = 0 THEN "CANCELLED" ELSE "FINISHED", locals)

(***************************************************************************)
(* utils/objects.py                                                        *)
(***************************************************************************)
RECURSIVE iter_collection_objects(_, _)
RECURSIVE iter_child_collections(_)
iter_collection_objects(collection, include_children) ==
    IF collection = None THEN <<>>
    ELSE SelectSeq(Collections[collection].objects, in_scene)
         \o (IF include_children
             THEN iter_child_collections(Collections[collection].children)
             ELSE <<>>)

\* "for child in collection.children: yield from iter_collection_objects(child)"
iter_child_collections(children) ==
    IF children = <<>> THEN <<>>
    ELSE iter_collection_objects(Head(children), TRUE)
         \o iter_child_collections(Tail(children))

\* _dedupe_objects keeping every occurrence
dedupe_objects_KeepsAll(unique, objs) == unique \o objs

RECURSIVE dedupe_objects(_, _)
\* _dedupe_objects, with the list `unique` built so far
dedupe_objects(unique, objs) ==
    IF objs = <<>> THEN unique
    ELSE dedupe_objects(IF Head(objs) = None \/ InSeq(Head(objs), unique) THEN unique
                        ELSE Append(unique, Head(objs)),
                        Tail(objs))

RECURSIVE expand_children(_)
\* "for obj in objects: expanded.extend(obj.children_recursive)"
expand_children(objs) ==
    IF objs = <<>> THEN <<>>
    ELSE children_recursive(Head(objs)) \o expand_children(Tail(objs))

gather_scope_objects(include_children, scope, collection, include_subcollections) ==
    LET objs == IF scope = "COLLECTION"
                THEN iter_collection_objects(collection, include_subcollections)
                ELSE selected_objects
    IN dedupe_objects(<<>>, IF include_children THEN objs \o expand_children(objs)
                            ELSE objs)

\* object_flip, on the objects `objs`
object_flip(objs, obj, axis_index) ==
    IF objs[obj].library \/ objs[obj].hide THEN objs
    ELSE [objs EXCEPT ![obj].scale[axis_index + 1] = -@]

\* The parts of the document the object operators change.
Document ==
    [objects |-> bpy_objects, active |-> active_object, selected |-> selected_objects,
     mode |-> view.mode, bones |-> selected_pose_bones, edit |-> edit_objects,
     scene_camera |-> scene_camera, camera_data |-> camera_data]

Becomes(doc) ==
    /\ bpy_objects' = doc.objects
    /\ active_object' = doc.active
    /\ selected_objects' = doc.selected
    /\ view' = [view EXCEPT !.mode = doc.mode]
    /\ selected_pose_bones' = doc.bones
    /\ edit_objects' = doc.edit
    /\ scene_camera' = doc.scene_camera
    /\ camera_data' = doc.camera_data

OnlyObjects ==
    UNCHANGED <<has_settings, keyframe_points, lock, selected_editable_fcurves,
                active_pose_bone, blinkVars, render, refcam_image, refcam_flags,
                object_location,
                verts, snap, geometry_before, holdVars, addonVars, modifiers, cycles,
                eevee>>

\* armature_paste_flipped: ensure_mode makes the armature active and puts it
\* in pose mode; every bone is selected when none is; the pose is copied and
\* pasted flipped unless one of the two host operators raises (~pasted); the
\* armature goes back to the mode it was in.
armature_paste_flipped(doc, armature, pasted) ==
    LET posing == doc.mode = "POSE" /\ doc.active = armature
        select_all == doc.objects[armature].bone_select = {}
    IN [doc EXCEPT
          !.objects[armature].bone_select = IF select_all THEN PoseBones ELSE @,
          !.objects[armature].pose =
              IF ~pasted THEN @ ELSE IF @ = "LEFT" THEN "RIGHT" ELSE "LEFT",
          !.active = armature,
          !.mode = IF posing THEN "POSE" ELSE "OBJECT",
          !.edit = IF posing THEN @ ELSE <<>>,
          !.bones = IF posing /\ select_all THEN <<"A", "B">> ELSE @]

(***************************************************************************)
(* operators/quick_flip.py                                                 *)
(***************************************************************************)
AXIS_TO_INDEX == [X |-> 0, Y |-> 1, Z |-> 2]

\* _gather_targets
gather_targets(settings) ==
    gather_scope_objects(settings.flip_include_children, settings.flip_scope,
                         settings.flip_collection, settings.flip_include_subcollections)

IsArmature(obj) == ObjectType[obj] = "ARMATURE"
NotArmature(obj) == ObjectType[obj] # "ARMATURE"

RECURSIVE paste_flipped_each(_, _, _)
\* "for armature in armatures: armature_paste_flipped(context, armature)"
paste_flipped_each(doc, armatures, pasted) ==
    IF armatures = <<>> THEN doc
    ELSE paste_flipped_each(armature_paste_flipped(doc, Head(armatures), pasted),
                            Tail(armatures), pasted)

RECURSIVE object_flip_each(_, _, _)
\* "for obj in objects: object_flip(obj, axis_index)"
object_flip_each(objs, others, axis_index) ==
    IF others = <<>> THEN objs
    ELSE object_flip_each(object_flip(objs, Head(others), axis_index), Tail(others),
                          axis_index)

\* ANIMATIONQOL_OT_flip_smart.execute
flip_smart(settings, pasted) ==
    LET axis_index == AXIS_TO_INDEX[settings.flip_axis]
        targets == gather_targets(settings)
        armatures == SelectSeq(targets, IsArmature)
        others == SelectSeq(targets, NotArmature)
        posed == paste_flipped_each(Document, armatures, pasted)
        locals == [op |-> "flip_smart", axis_index |-> axis_index, targets |-> targets]
    IN /\ Idle
       /\ OnlyObjects
       /\ IF settings_is_None
          THEN ~pasted /\ Returns("CANCELLED", [op |-> "flip_smart"]) /\ Becomes(Document)
          ELSE IF targets = <<>>
          THEN ~pasted /\ Returns("CANCELLED", locals) /\ Becomes(Document)
          ELSE /\ pasted => armatures # <<>>
               /\ Becomes([posed EXCEPT
                             !.objects = object_flip_each(@, others, axis_index)])
               /\ Returns("FINISHED", locals)

\* ANIMATIONQOL_OT_flip_pose_only.execute
flip_pose_only(settings, pasted) ==
    LET targets == gather_targets(settings)
        armatures == SelectSeq(targets, IsArmature)
        locals == [op |-> "flip_pose_only", targets |-> targets]
    IN /\ Idle
       /\ OnlyObjects
       /\ IF settings_is_None
          THEN ~pasted /\ Returns("CANCELLED", [op |-> "flip_pose_only"])
               /\ Becomes(Document)
          ELSE IF armatures = <<>>
          THEN ~pasted /\ Returns("CANCELLED", locals) /\ Becomes(Document)
          ELSE /\ Becomes(paste_flipped_each(Document, armatures, pasted))
               /\ Returns("FINISHED", locals)

\* ANIMATIONQOL_OT_flip_objects_only.execute
flip_objects_only(settings) ==
    LET axis_index == AXIS_TO_INDEX[settings.flip_axis]
        targets == gather_targets(settings)
        objs == SelectSeq(targets, NotArmature)
        locals == [op |-> "flip_objects_only", axis_index |-> axis_index,
                   settings |-> settings, targets |-> targets]
    IN /\ Idle
       /\ OnlyObjects
       /\ IF settings_is_None
          THEN Returns("CANCELLED", [op |-> "flip_objects_only"]) /\ Becomes(Document)
          ELSE IF objs = <<>>
          THEN Returns("CANCELLED", locals) /\ Becomes(Document)
          ELSE /\ Becomes([Document EXCEPT
                             !.objects = object_flip_each(@, objs, axis_index)])
               /\ Returns("FINISHED", locals)

(***************************************************************************)
(* operators/scene_cleanup.py                                              *)
(***************************************************************************)
\* object_is_visible with visible_get() taken to be true
object_is_visible_IgnoresViewport(obj, consider_viewport, consider_render) ==
    IF ~consider_render /\ ~consider_viewport THEN TRUE
    ELSE IF consider_render /\ ~bpy_objects[obj].hide_render THEN TRUE
    ELSE consider_viewport

\* object_is_visible without its first test
object_is_visible_NoCriterionHides(obj, consider_viewport, consider_render) ==
    IF consider_render /\ ~bpy_objects[obj].hide_render THEN TRUE
    ELSE consider_viewport /\ bpy_objects[obj].visible

object_is_visible(obj, consider_viewport, consider_render) ==
    IF ~consider_render /\ ~consider_viewport THEN TRUE
    ELSE IF consider_render /\ ~bpy_objects[obj].hide_render THEN TRUE
    ELSE consider_viewport /\ bpy_objects[obj].visible

object_affects_lighting(obj) == ObjectType[obj] \in {"LIGHT", "LIGHT_PROBE"}

\* _gather_cleanup_targets
gather_cleanup_targets(settings) ==
    LET kept(obj) ==
            \/ settings.cleanup_exclude_linked_data /\ bpy_objects[obj].library
            \/ object_affects_lighting(obj) /\ settings.cleanup_keep_lights
            \/ /\ ObjectType[obj] = "CAMERA"
               /\ \/ settings.cleanup_keep_active_camera /\ obj = scene_camera
                  \/ settings.cleanup_keep_cameras
            \/ object_is_visible(obj, settings.cleanup_consider_viewport,
                                 settings.cleanup_consider_render)
    IN SelectSeq(scene_objects, LAMBDA obj : ~kept(obj))

\* self.dry_run with the test left out
dry_run_reports_Never(dry_run) == FALSE

\* `if self.dry_run:` the candidates are reported and nothing is removed
dry_run_reports(dry_run) == dry_run

\* ANIMATIONQOL_OT_cleanup_invisible.execute
cleanup_invisible(dry_run, settings) ==
    LET candidates == gather_cleanup_targets(settings)
        gone(obj) == InSeq(obj, candidates)
        leaves_mode == active_object # None /\ view.mode # "OBJECT"
        removed ==
            [objects |-> [obj \in DOMAIN bpy_objects |->
                            IF gone(obj) THEN [bpy_objects[obj] EXCEPT !.in_scene = FALSE]
                            ELSE bpy_objects[obj]],
             active |-> IF gone(active_object) THEN None ELSE active_object,
             selected |-> SelectSeq(selected_objects, LAMBDA obj : ~gone(obj)),
             mode |-> IF leaves_mode THEN "OBJECT" ELSE view.mode,
             bones |-> selected_pose_bones,
             edit |-> IF leaves_mode THEN <<>> ELSE edit_objects,
             scene_camera |-> IF gone(scene_camera) THEN None ELSE scene_camera,
             camera_data |-> [c \in CameraObjects |->
                                IF gone(c) THEN Absent ELSE camera_data[c]]]
        locals == [op |-> "cleanup_invisible", dry_run |-> dry_run,
                   settings |-> settings, active_camera |-> scene_camera,
                   candidates |-> candidates]
    IN /\ Idle
       /\ OnlyObjects
       /\ IF settings_is_None
          THEN Returns("CANCELLED", [op |-> "cleanup_invisible"]) /\ Becomes(Document)
          ELSE IF candidates = <<>> \/ dry_run_reports(dry_run)
          THEN Returns("CANCELLED", locals) /\ Becomes(Document)
          ELSE Becomes(removed) /\ Returns("FINISHED", locals)

(***************************************************************************)
(* operators/physics_dropper.py                                            *)
(* The ray casts are the host's: `cast` gives, for each drop target, the   *)
(* least distance its bottom corners can fall (0: no corner hits a surface *)
(* within drop_max_distance, or none is above it) and the normal of the    *)
(* surface hit.  It takes in drop_ray_offset, drop_max_distance and        *)
(* drop_contact_offset.                                                    *)
(***************************************************************************)
DropTypes == {"MESH", "CURVE", "SURFACE", "FONT", "META", "GPENCIL", "EMPTY"}

IsMesh(obj) == ObjectType[obj] = "MESH"

\* len(mesh.polygons) of the evaluated mesh: "Face" is a mesh of loose vertices
Polygons == [Face |-> 0, Floor |-> 1]

\* _gather_ground_objects
gather_ground_objects(settings, drop_ids) ==
    IF settings.drop_collision_collection # None
    THEN SelectSeq(iter_collection_objects(settings.drop_collision_collection,
                                           settings.drop_include_subcollections),
                   IsMesh)
    ELSE SelectSeq(scene_objects, LAMBDA obj : obj \notin drop_ids /\ IsMesh(obj))

\* What the ray casts from an object's bottom corners come to
RayCasts ==
    {[min_drop |-> 0, normal |-> "ZERO"]} \cup
    [min_drop : {1}, normal : {"ZERO", "Z", "TILTED"}]

\* _build_bvh_tree(...) is not None
build_bvh_tree(objs) == \E i \in DOMAIN objs : Polygons[objs[i]] > 0

\* ANIMATIONQOL_OT_drop_to_surface.execute
drop_to_surface(settings) ==
    LET selected_editable_objects ==
            SelectSeq(selected_objects, LAMBDA obj : ~bpy_objects[obj].library)
        candidates == IF selected_editable_objects # <<>> THEN selected_editable_objects
                      ELSE selected_objects
        drop_targets == SelectSeq(candidates, LAMBDA obj : ObjectType[obj] \in DropTypes)
        drop_ids == Range(drop_targets)
        ground_objects == gather_ground_objects(settings, drop_ids)
        moved(cast, obj) == obj \in drop_ids /\ cast[obj].min_drop # 0
        aligned(cast, obj) == /\ moved(cast, obj)
                              /\ settings.drop_align_rotation
                              /\ cast[obj].normal # "ZERO"
        move_count(cast) == Cardinality({obj \in drop_ids : moved(cast, obj)})
        dropped(cast) ==
            [obj \in DOMAIN bpy_objects |->
                [bpy_objects[obj] EXCEPT
                   !.z = IF moved(cast, obj) THEN @ - cast[obj].min_drop ELSE @,
                   !.up = IF aligned(cast, obj) THEN cast[obj].normal ELSE @]]
        locals == [op |-> "drop_to_surface", drop_targets |-> drop_targets]
    IN /\ Idle
       /\ OnlyObjects
       /\ IF settings_is_None
          THEN Returns("CANCELLED", [op |-> "drop_to_surface"]) /\ Becomes(Document)
          ELSE IF \/ drop_targets = <<>>
                  \/ ground_objects = <<>>
                  \/ ~build_bvh_tree(ground_objects)
          THEN Returns("CANCELLED", locals) /\ Becomes(Document)
          ELSE \E cast \in [drop_ids -> RayCasts] :
                  /\ Becomes([Document EXCEPT !.objects = dropped(cast)])
                  /\ Returns(IF move_count(cast) = 0 THEN "CANCELLED" ELSE "FINISHED",
                             [op |-> "drop_to_surface", drop_targets |-> drop_targets,
                              ground_objects |-> ground_objects,
                              move_count |-> move_count(cast)])

(***************************************************************************)
(* preferences.py                                                          *)
(***************************************************************************)
KeymapItem(id, idname) == [id |-> id, idname |-> idname]

\* The shortcuts of _install_keymaps, in its order
Shortcuts ==
    <<[feature |-> "enable_quick_snap_tools", shortcut |-> "enable_quick_snap_shortcut",
       keymap |-> "3D View", idname |-> "animation_qol.quick_snap"],
      [feature |-> "enable_physics_dropper_tools", shortcut |-> "enable_dropper_shortcut",
       keymap |-> "3D View", idname |-> "animation_qol.drop_to_surface"],
      [feature |-> "enable_auto_blink_tools", shortcut |-> "enable_auto_blink_shortcut",
       keymap |-> "Graph Editor", idname |-> "animation_qol.generate_auto_blinks"]>>

PrefFlags == {Shortcuts[i].feature : i \in DOMAIN Shortcuts}
                \cup {Shortcuts[i].shortcut : i \in DOMAIN Shortcuts}

\* The properties' defaults: tools shown, shortcuts off
DefaultPrefs ==
    [flag \in PrefFlags |-> \E i \in DOMAIN Shortcuts : Shortcuts[i].feature = flag]

\* The registry and the host's keymaps, as the functions below transform them
Keys(registry, kms) == [_addon_keymaps |-> registry, keymaps |-> kms]

\* get_addon_preferences(...) is not None: the entry exists and its
\* preferences class is registered
PrefsAvailable(entry, class_registered) == entry /\ class_registered

\* km.keymap_items.remove(kmi)
keymap_items_remove(kms, km, kmi) ==
    [kms EXCEPT ![km] = SelectSeq(@, LAMBDA item : item.id # kmi)]

RECURSIVE remove_existing_keymaps_RegistryOnly(_)
remove_existing_keymaps_RegistryOnly(k) ==
    IF k._addon_keymaps = <<>> THEN k
    ELSE remove_existing_keymaps_RegistryOnly(
             Keys(SubSeq(k._addon_keymaps, 1, Len(k._addon_keymaps) - 1), k.keymaps))

RECURSIVE remove_existing_keymaps(_)
\* _remove_existing_keymaps
remove_existing_keymaps(k) ==
    IF k._addon_keymaps = <<>> THEN k
    ELSE LET last == k._addon_keymaps[Len(k._addon_keymaps)]
         IN remove_existing_keymaps(
                Keys(SubSeq(k._addon_keymaps, 1, Len(k._addon_keymaps) - 1),
                     keymap_items_remove(k.keymaps, last[1], last[2])))

clear_keymaps_Nothing(k) == k

\* clear_keymaps
clear_keymaps(k) == remove_existing_keymaps(k)

\* keyconfigs.keymaps.new(name=...): the keymap of that name, created if absent
keymaps_new(kms, name) ==
    IF name \in DOMAIN kms THEN kms
    ELSE [n \in DOMAIN kms \cup {name} |-> IF n = name THEN <<>> ELSE kms[n]]

\* km.keymap_items.new(...): a new item, identified by the least id not in use
NewItemId(kms) ==
    CHOOSE id \in 1..(Len(Shortcuts) + 1) :
        /\ \A n \in DOMAIN kms : \A i \in DOMAIN kms[n] : kms[n][i].id # id
        /\ \A smaller \in 1..(id - 1) :
              \E n \in DOMAIN kms : \E i \in DOMAIN kms[n] : kms[n][i].id = smaller

RECURSIVE InstallFrom(_, _, _)
\* The three blocks of _install_keymaps, from the i-th on
InstallFrom(i, k, p) ==
    IF i > Len(Shortcuts) THEN k
    ELSE IF p[Shortcuts[i].feature] /\ p[Shortcuts[i].shortcut]
    THEN LET km == Shortcuts[i].keymap
             kms == keymaps_new(k.keymaps, km)
             kmi == NewItemId(kms)
         IN InstallFrom(i + 1,
                        Keys(Append(k._addon_keymaps, <<km, kmi>>),
                             [kms EXCEPT ![km] =
                                 Append(@, KeymapItem(kmi, Shortcuts[i].idname))]),
                        p)
    ELSE InstallFrom(i + 1, k, p)

\* _install_keymaps
install_keymaps(k, p, keyconfigs) == IF ~keyconfigs THEN k ELSE InstallFrom(1, k, p)

\* refresh_keymaps
refresh_keymaps(k, available, p, keyconfigs) ==
    IF ~available THEN k
    ELSE install_keymaps(remove_existing_keymaps(k), p, keyconfigs)

\* properties.unregister: del Scene.animation_qol_settings
properties_unregister == FALSE

(***************************************************************************)
(* __init__.py                                                             *)
(***************************************************************************)
\* register(): the modules are reloaded, which re-executes preferences.py
\* and so rebinds _addon_keymaps to an empty list; preferences.register
\* registers the class and refreshes; properties.register attaches the
\* settings; the other modules register their classes; a last refresh.
register ==
    LET reloaded == Keys(<<>>, keymaps)
        available == PrefsAvailable(addon_entry, TRUE)
        first == refresh_keymaps(reloaded, available, prefs, keyconfigs_addon)
        last == refresh_keymaps(first, available, prefs, keyconfigs_addon)
    IN /\ ~registered
       /\ OnlyAddon
       /\ registered' = TRUE
       /\ has_settings' = TRUE
       /\ _addon_keymaps' = last._addon_keymaps
       /\ keymaps' = last.keymaps
       /\ UNCHANGED <<addon_entry, prefs>>
       /\ call' = [op |-> "register", removed |-> Len(first._addon_keymaps)]

\* unregister(): clear_keymaps, then the modules in reverse order, of which
\* properties.unregister detaches the settings and preferences.unregister
\* clears the keymaps again and unregisters the class.
unregister ==
    LET cleared == clear_keymaps(Keys(_addon_keymaps, keymaps))
        last == clear_keymaps(cleared)
    IN /\ registered
       /\ OnlyAddon
       /\ registered' = FALSE
       /\ has_settings' = properties_unregister
       /\ _addon_keymaps' = last._addon_keymaps
       /\ keymaps' = last.keymaps
       /\ UNCHANGED <<addon_entry, prefs>>
       /\ call' = [op |-> "unregister", removed |-> Len(_addon_keymaps)]

\* A call of preferences.refresh_keymaps
RefreshKeymaps ==
    LET k == refresh_keymaps(Keys(_addon_keymaps, keymaps),
                             PrefsAvailable(addon_entry, registered), prefs,
                             keyconfigs_addon)
    IN /\ OnlyAddon
       /\ _addon_keymaps' = k._addon_keymaps
       /\ keymaps' = k.keymaps
       /\ UNCHANGED <<has_settings, registered, addon_entry, prefs>>
       /\ call' = [op |-> "refresh_keymaps", removed |-> Len(_addon_keymaps)]

\* The user toggles a preference; the shortcut flags carry
\* update=_update_keymaps, the feature flags no callback.
toggle_preference(flag) ==
    LET toggled == [prefs EXCEPT ![flag] = ~@]
        updates == \E i \in DOMAIN Shortcuts : Shortcuts[i].shortcut = flag
        k == IF updates
             THEN refresh_keymaps(Keys(_addon_keymaps, keymaps),
                                  PrefsAvailable(addon_entry, registered), toggled,
                                  keyconfigs_addon)
             ELSE Keys(_addon_keymaps, keymaps)
    IN /\ PrefsAvailable(addon_entry, registered)
       /\ OnlyAddon
       /\ prefs' = toggled
       /\ _addon_keymaps' = k._addon_keymaps
       /\ keymaps' = k.keymaps
       /\ UNCHANGED <<has_settings, registered, addon_entry>>
       /\ call' = IF updates
                  THEN [op |-> "_update_keymaps", removed |-> Len(_addon_keymaps)]
                  ELSE [op |-> "toggle", flag |-> flag, value |-> toggled[flag]]

\* The host adds the add-on's entry to preferences.addons (with the default
\* preferences) when the add-on is enabled, and removes it when disabled.
addons_new ==
    /\ ~addon_entry
    /\ OnlyAddon
    /\ addon_entry' = TRUE
    /\ prefs' = DefaultPrefs
    /\ UNCHANGED <<has_settings, registered, _addon_keymaps, keymaps>>
    /\ call' = [op |-> "addons.new"]

addons_remove ==
    /\ addon_entry
    /\ OnlyAddon
    /\ addon_entry' = FALSE
    /\ prefs' = DefaultPrefs
    /\ UNCHANGED <<has_settings, registered, _addon_keymaps, keymaps>>
    /\ call' = [op |-> "addons.remove"]

(***************************************************************************)
(* The parts of a document an operator family does not touch: each         *)
(* specification below fixes the other families' state to these.           *)
(***************************************************************************)
NoKeyBlock == [value |-> 0, keyframes |-> <<>>]

NoShapeKeys ==
    /\ shape_keys = [obj \in Objects |-> "none"]
    /\ key_block = [obj \in Objects |-> NoKeyBlock]
    /\ key_block_before = key_block
    /\ blink = NotBlinking

\* What is selected where the operator is invoked.
KeyContexts ==
    {[fcurves |-> f, objects |-> o, active |-> a, bones |-> b, active_bone |-> ab] :
        <<f, o, a, b, ab>> \in
          {<<<<>>,        <<>>,              None,   <<>>,         None>>,
           <<<<1>>,       <<>>,              None,   <<>>,         None>>,
           <<<<2, 1>>,    <<"Rig">>,         None,   <<>>,         None>>,
           <<<<1, 3>>,    <<>>,              "Face", <<>>,         None>>,
           <<<<1, 3, 2>>, <<>>,              None,   <<"A">>,      None>>,
           <<<<>>,        <<"Rig">>,         "Face", <<>>,         None>>,
           <<<<>>,        <<"Rig", "Face">>, "Rig",  <<>>,         None>>,
           <<<<>>,        <<"Face", "Rig">>, None,   <<"B">>,      "B">>,
           <<<<>>,        <<>>,              "Rig",  <<"A">>,      "B">>,
           <<<<3>>,       <<"Rig">>,         "Rig",  <<"B", "A">>, "A">>,
           <<<<>>,        <<"Rig", "Face", "Camera">>, "Rig", <<>>,    None>>,
           <<<<>>,        <<"Face", "Rig">>, "Rig",  <<"A", "B">>, "A">>}}

NoAnimation ==
    /\ keyframe_points = [c \in Curves |-> <<>>]
    /\ lock = [c \in Curves |-> FALSE]
    /\ selected_editable_fcurves = <<>>
    /\ active_object = None
    /\ selected_pose_bones = <<>>
    /\ active_pose_bone = None

\* scene.render, scene.cycles and scene.eevee of a new scene
InitialRender ==
    [resolution_x |-> 1920, resolution_y |-> 1080, resolution_percentage |-> 50,
     use_motion_blur |-> FALSE, use_simplify |-> FALSE, file_format |-> "PNG",
     color_mode |-> "RGBA", color_depth |-> "8", quality |-> 90,
     ffmpeg_format |-> "MKV", constant_rate_factor |-> "MEDIUM"]

InitialCycles ==
    [samples |-> 4096, preview_samples |-> 1024, use_adaptive_sampling |-> TRUE,
     use_denoising |-> TRUE, use_preview_denoising |-> FALSE]

InitialEevee ==
    [taa_render_samples |-> 64, taa_samples |-> 16, use_motion_blur |-> FALSE,
     use_gtao |-> FALSE, use_ssr |-> FALSE]

\* An object as it is added to a scene
NewObject ==
    [in_scene |-> TRUE, library |-> FALSE, hide_render |-> FALSE, visible |-> TRUE,
     hide |-> FALSE, scale |-> <<1, 1, 1>>, z |-> 2, up |-> "Z", pose |-> "LEFT",
     bone_select |-> {}]

\* The scene holds the two animated objects only.
NoScene ==
    /\ bpy_objects = [obj \in Range(AllObjects) |->
                    [NewObject EXCEPT !.in_scene = (obj \in Objects)]]
    /\ modifiers = [c \in Curves |-> <<>>]
    /\ cycles = InitialCycles
    /\ eevee = InitialEevee

NoCameras ==
    /\ scene_camera = None
    /\ camera_data = [c \in CameraObjects |-> Absent]
    /\ render = InitialRender
    /\ refcam_image = None
    /\ refcam_flags = RefcamFlagDefaults

NoViewport ==
    /\ view = [mode |-> "OBJECT", area_type |-> "VIEW_3D", region_type |-> "WINDOW",
               header_text |-> None]
    /\ object_location = [obj \in Objects |-> 0]
    /\ verts = [obj \in Objects |-> <<>>]
    /\ edit_objects = <<>>
    /\ snap = NewSnap
    /\ geometry_before = <<object_location, verts>>

NoHold ==
    /\ hold = NotHolding
    /\ keyframe_points_before = keyframe_points

\* The add-on is enabled and no shortcut is installed.
AddonEnabled ==
    /\ registered = TRUE
    /\ addon_entry = TRUE
    /\ prefs = DefaultPrefs
    /\ keyconfigs_addon = TRUE
    /\ _addon_keymaps = <<>>
    /\ keymaps = <<>>

NoDocument ==
    /\ NoScene
    /\ NoAnimation
    /\ selected_objects = <<>>
    /\ NoHold
    /\ NoShapeKeys
    /\ NoCameras
    /\ NoViewport

(***************************************************************************)
(* Specification SpecBlink: one invocation of generate_auto_blinks.        *)
(***************************************************************************)
MaxBlinkFrame == 6      \* the frame range lies within 0..MaxBlinkFrame

BlinkSettings ==
    [blink_frame_start : {0, 2, MaxBlinkFrame}, blink_frame_end : {0, MaxBlinkFrame},
     blink_interval : {0, 2}, blink_interval_random : {-1, 3},
     blink_close_frames : {0, 2}, blink_open_frames : {1}, blink_hold_frames : {-1, 1},
     blink_strength : {1}, blink_shape_key_name : {"", "Blink"},
     blink_use_selected_objects : BOOLEAN]

InitBlink ==
    /\ AddonEnabled
    /\ NoScene
    /\ has_settings \in BOOLEAN
    /\ call = NoCall
    /\ ret = "NONE"
    /\ NoAnimation
    /\ NoHold
    /\ NoCameras
    /\ NoViewport
    /\ selected_objects \in {<<>>, <<"Face">>, <<"Face", "Rig">>}
    /\ shape_keys \in [Objects -> {"none", "other", "named"}]
    /\ key_block \in [Objects -> {[value |-> v, keyframes |-> <<>>] : v \in {0, 1}}]
    /\ \A obj \in Objects : shape_keys[obj] # "named" => key_block[obj] = NoKeyBlock
    /\ key_block_before = key_block
    /\ blink = NotBlinking

GenerateAutoBlinks == \E settings \in BlinkSettings : generate_auto_blinks(settings)

NextBlink == GenerateAutoBlinks \/ blink_for_target \/ BlinkWhile

SpecBlink == InitBlink /\ [][NextBlink]_vars /\ WF_vars(NextBlink)

(***************************************************************************)
(* Specification SpecRefcam: one invocation of a reference camera          *)
(* operator.  The stored angles and sensor sizes include values outside    *)
(* the properties' ranges, which a raw ID property write leaves behind.    *)
(***************************************************************************)
RefcamModes ==
    {[refcam_use_equiv_35 |-> e, refcam_use_fov_h |-> h, refcam_use_fov_v |-> v] :
        <<e, h, v>> \in {<<TRUE, FALSE, FALSE>>, <<FALSE, TRUE, FALSE>>,
                         <<FALSE, FALSE, TRUE>>, <<FALSE, FALSE, FALSE>>}}

RefcamSensors ==
    {[refcam_sensor_preset |-> "FULL_FRAME", refcam_sensor_width |-> 36,
      refcam_sensor_height |-> 24],
     [refcam_sensor_preset |-> "CUSTOM", refcam_sensor_width |-> 18,
      refcam_sensor_height |-> 12],
     [refcam_sensor_preset |-> "CUSTOM", refcam_sensor_width |-> 0,
      refcam_sensor_height |-> 12]}

Merge(a, b) ==
    [k \in DOMAIN a \cup DOMAIN b |-> IF k \in DOMAIN a THEN a[k] ELSE b[k]]

RefcamSettings ==
    {Merge(Merge(m, sz), rest) :
        m \in RefcamModes, sz \in RefcamSensors,
        rest \in [refcam_image_path : {"", "missing", "wide", "tall"},
                  refcam_override_fit : BOOLEAN,
                  refcam_sensor_fit : {"VERTICAL"},
                  refcam_equiv_35_mm : {50},
                  refcam_fov_h_deg : {90, 180},
                  refcam_fov_v_deg : {0, 90},
                  refcam_direct_lens_mm : {35},
                  refcam_add_background : BOOLEAN]}

OldCamera ==
    [sensor_width |-> 32, sensor_height |-> 18, sensor_fit |-> "AUTO", lens |-> 85,
     show_background_images |-> FALSE, background_images |-> <<>>]

InitRefcam ==
    /\ AddonEnabled
    /\ NoScene
    /\ has_settings \in BOOLEAN
    /\ call = NoCall
    /\ ret = "NONE"
    /\ NoAnimation
    /\ selected_objects = <<>>
    /\ NoHold
    /\ NoShapeKeys
    /\ NoViewport
    /\ scene_camera \in {None, "Camera", "Empty"}
    /\ camera_data \in
          {[c \in CameraObjects |-> IF c = "Camera" THEN cam ELSE Absent] :
              cam \in {Absent, OldCamera,
                       [OldCamera EXCEPT !.background_images =
                           <<[image |-> "tall", tagged |-> TRUE],
                             [image |-> "tall", tagged |-> FALSE]>>]}}
    /\ scene_camera = "Camera" => camera_data["Camera"] # Absent
    /\ render = InitialRender
    /\ refcam_image \in {None, "wide", "empty"}
    /\ refcam_flags \in RefcamModes

RefcamLoadImage == \E settings \in RefcamSettings : refcam_load_image(settings)
\* The flags refcam_apply reads are the stored ones.
RefcamApply ==
    \E settings \in RefcamSettings :
        /\ [flag \in RefcamFlags |-> settings[flag]] = refcam_flags
        /\ refcam_apply(settings)

NextRefcam == RefcamLoadImage \/ RefcamApply

SpecRefcam == InitRefcam /\ [][NextRefcam]_vars

(***************************************************************************)
(* Specification SpecToggle: the user toggles the three lens-mode flags    *)
(* of a scene's settings, starting from their defaults, in any order and   *)
(* any number of times, and may run refcam_apply once along the way.       *)
(***************************************************************************)
InitToggle ==
    /\ InitRefcam
    /\ refcam_flags = RefcamFlagDefaults

ToggleEquiv35 == refcam_toggle("refcam_use_equiv_35")
ToggleFovH == refcam_toggle("refcam_use_fov_h")
ToggleFovV == refcam_toggle("refcam_use_fov_v")

NextToggle == ToggleEquiv35 \/ ToggleFovH \/ ToggleFovV \/ RefcamApply

SpecToggle == InitToggle /\ [][NextToggle]_vars

(***************************************************************************)
(* Specification SpecSnap: one quick snap session, from invoke to the      *)
(* event that ends it.                                                     *)
(***************************************************************************)
FaceVerts ==
    {<<[co |-> 0, select |-> a], [co |-> 1, select |-> b]>> : a \in BOOLEAN, b \in BOOLEAN}

InitSnap ==
    /\ AddonEnabled
    /\ NoScene
    /\ has_settings \in BOOLEAN
    /\ call = NoCall
    /\ ret = "NONE"
    /\ NoAnimation
    /\ NoHold
    /\ NoShapeKeys
    /\ NoCameras
    /\ selected_objects \in {<<>>, <<"Face">>, <<"Rig", "Face">>}
    /\ view \in [mode : {"OBJECT", "EDIT_MESH", "POSE"},
                  area_type : {"VIEW_3D", "GRAPH_EDITOR"},
                  region_type : {"WINDOW", "UI"},
                  header_text : {None}]
    /\ edit_objects = IF view.mode = "EDIT_MESH" THEN <<"Face">> ELSE <<>>
    /\ view.mode = "EDIT_MESH" => "Face" \in Range(selected_objects)
    /\ object_location \in [Objects -> {0, MaxCoord}]
    /\ verts \in {[obj \in Objects |-> IF obj = "Face" THEN v ELSE <<>>] : v \in FaceVerts}
    /\ snap = NewSnap
    /\ geometry_before = <<object_location, verts>>

QuickSnapCancel == \E event \in Events : quick_snap_cancel(event)
QuickSnapClick ==
    \E event \in Events, pick \in {NoVector} \cup {Vector(p) : p \in Points} :
        quick_snap_click(event, pick)
QuickSnapPassThrough == \E event \in Events : quick_snap_pass_through(event)

NextSnap ==
    quick_snap_invoke \/ QuickSnapCancel \/ QuickSnapClick \/ QuickSnapPassThrough

SpecSnap == InitSnap /\ [][NextSnap]_vars

(***************************************************************************)
(* Specification SpecHold: one invocation of insert_motion_hold.           *)
(***************************************************************************)
MaxHoldKeys == 2        \* keys on a curve when the operator is invoked

HoldSettings ==
    [hold_frame_count : {0, 2}, hold_only_selected_curves : BOOLEAN,
     hold_include_shape_keys : BOOLEAN, hold_only_selected_keys : BOOLEAN,
     hold_interpolation : {"CONSTANT", "BEZIER"}, hold_inherit_handles : BOOLEAN]

RECURSIVE HoldKeySeqsFrom(_, _)
\* Chronologically ordered lists of n keys on frames lo, lo + 1, ...
HoldKeySeqsFrom(lo, n) ==
    IF n = 0 THEN {<<>>}
    ELSE {<<HoldKey(lo, sel, interpolation)>> \o rest :
            sel \in BOOLEAN, interpolation \in {"BEZIER", "LINEAR"},
            rest \in HoldKeySeqsFrom(lo + 1, n - 1)}

HoldKeySeqs == UNION {HoldKeySeqsFrom(0, n) : n \in 0..MaxHoldKeys}

HoldContexts ==
    {ctx \in KeyContexts :
        <<ctx.fcurves, ctx.objects, ctx.active>> \in
            {<<<<>>, <<>>, None>>, <<<<1>>, <<>>, None>>, <<<<>>, <<"Rig">>, "Face">>}}

InitHold ==
    /\ AddonEnabled
    /\ NoScene
    /\ has_settings \in BOOLEAN
    /\ call = NoCall
    /\ ret = "NONE"
    /\ NoShapeKeys
    /\ NoCameras
    /\ NoViewport
    /\ keyframe_points \in {(1 :> k1) @@ (2 :> k2) @@ (3 :> k3) @@ (4 :> <<>>) :
                               k1 \in HoldKeySeqs,
                               k2 \in {<<>>, <<HoldKey(0, TRUE, "BEZIER")>>},
                               k3 \in {<<HoldKey(1, FALSE, "LINEAR")>>}}
    /\ lock = [c \in Curves |-> FALSE]
    /\ \E ctx \in HoldContexts :
          /\ selected_editable_fcurves = ctx.fcurves
          /\ selected_objects = ctx.objects
          /\ active_object = ctx.active
          /\ selected_pose_bones = ctx.bones
          /\ active_pose_bone = ctx.active_bone
    /\ hold = NotHolding
    /\ keyframe_points_before = keyframe_points

InsertMotionHold == \E settings \in HoldSettings : insert_motion_hold(settings)

HoldIterate ==
    /\ hold.pc = "iter"
    /\ \E alias \in 0..(2 * MaxHoldKeys), lands \in BOOLEAN : hold_iterate(alias, lands)

NextHold == InsertMotionHold \/ hold_for_fcurve \/ HoldIterate

SpecHold == InitHold /\ [][NextHold]_vars /\ WF_vars(NextHold)

(***************************************************************************)
(* Specification SpecAddon: the add-on's life in the host, from before     *)
(* register() on: registration, preference toggles, refreshes,             *)
(* unregistration.  The add-on key configuration is shared with other      *)
(* add-ons, whose items are there from the start.                          *)
(***************************************************************************)
ForeignItem == KeymapItem(0, "other_addon.operator")

InitAddon ==
    /\ NoDocument
    /\ has_settings = FALSE
    /\ call = NoCall
    /\ ret = "NONE"
    /\ registered = FALSE
    /\ addon_entry \in BOOLEAN
    /\ prefs \in IF addon_entry THEN [PrefFlags -> BOOLEAN] ELSE {DefaultPrefs}
    /\ keyconfigs_addon \in BOOLEAN
    /\ _addon_keymaps = <<>>
    /\ keymaps \in IF keyconfigs_addon
                   THEN {<<>>, [n \in {"3D View"} |-> <<ForeignItem>>]}
                   ELSE {<<>>}

TogglePreference == \E flag \in PrefFlags : toggle_preference(flag)

NextAddon ==
    register \/ unregister \/ RefreshKeymaps \/ TogglePreference
        \/ addons_new \/ addons_remove

SpecAddon == InitAddon /\ [][NextAddon]_vars

(***************************************************************************)
(* Specification SpecKeys: one invocation of a keyframe-shifting operator  *)
(* on a document drawn from the bounded family below.                      *)
(***************************************************************************)
LockChoices == {[c \in Curves |-> FALSE], [c \in Curves |-> c = 1]}

\* The scene holds the two animated objects and the animated camera, which
\* is the active camera.
InitKeys ==
    /\ AddonEnabled
    /\ NoScene
    /\ NoShapeKeys
    /\ scene_camera = "Camera"
    /\ camera_data = [c \in CameraObjects |-> IF c = "Camera" THEN OldCamera ELSE Absent]
    /\ render = InitialRender
    /\ refcam_image = None
    /\ refcam_flags = RefcamFlagDefaults
    /\ NoViewport
    /\ has_settings \in BOOLEAN
    /\ call = NoCall
    /\ ret = "NONE"
    /\ keyframe_points \in {(1 :> k1) @@ (2 :> k2) @@ (3 :> k3) @@ (4 :> CameraKeys) :
                               <<k1, k2, k3>> \in KeySeqs \X FewKeySeqs \X FewKeySeqs}
    /\ lock \in LockChoices
    /\ \E ctx \in KeyContexts :
          /\ selected_editable_fcurves = ctx.fcurves
          /\ selected_objects = ctx.objects
          /\ active_object = ctx.active
          /\ selected_pose_bones = ctx.bones
          /\ active_pose_bone = ctx.active_bone
    /\ NoHold

\* The operator is run from the panel (use_scene_settings, the default) or with
\* its own properties; the record not read is at the defaults.
OffsetKeyframes ==
    \/ \E settings \in OffsetSettings : offset_keyframes(TRUE, settings, OffsetPropsDefault)
    \/ \E self \in OffsetProps : offset_keyframes(FALSE, OffsetSettingsDefault, self)

StaggerKeyframes ==
    \/ \E settings \in StaggerSettings : stagger_keyframes(TRUE, settings, StaggerPropsDefault)
    \/ \E self \in StaggerProps : stagger_keyframes(FALSE, StaggerSettingsDefault, self)

NextKeys == OffsetKeyframes \/ StaggerKeyframes

SpecKeys == InitKeys /\ [][NextKeys]_vars

(***************************************************************************)
(* Specification SpecOps: one invocation of any operator's execute, on a   *)
(* scene with or without the settings.  The keyframes are those of the     *)
(* motion hold, with time in ticks; the frame offsets of the keyframe      *)
(* operators are whole frames.                                             *)
(***************************************************************************)
EaseSettings ==
    [ease_preset : {"EASE_IN", "EASE_OUT", "EASE_IN_OUT", "LINEAR", "CONSTANT"},
     ease_only_selected_curves : BOOLEAN, ease_only_selected_keys : BOOLEAN,
     ease_include_shape_keys : BOOLEAN, ease_affect_handles : BOOLEAN]

RenderSettings ==
    [render_preset : {"PREVIEW", "PLAYBLAST", "STILL_DRAFT", "STILL_FINAL",
                      "STILL_CLAY", "FINAL"},
     render_adjust_output : BOOLEAN, render_adjust_samples : BOOLEAN]

\* In thousandths; a scale of 0 is below the property's minimum (a value the
\* settings hold when written as a raw ID property).
NoiseSettings ==
    [noise_seed : {0}, noise_phase_min : {0, 8}, noise_phase_max : {4},
     noise_offset_min : {-4}, noise_offset_max : {-4},
     noise_strength_min : {2}, noise_strength_max : {0},
     noise_scale_min : {0, 2}, noise_scale_max : {0, 4},
     noise_create_missing : BOOLEAN]

FlipSettings ==
    [flip_scope : {"SELECTION", "COLLECTION"}, flip_collection : {None, "Props"},
     flip_include_subcollections : BOOLEAN, flip_include_children : BOOLEAN,
     flip_axis : {"X", "Y", "Z"}]

CleanupSettings ==
    [cleanup_consider_viewport : BOOLEAN, cleanup_consider_render : BOOLEAN,
     cleanup_keep_lights : BOOLEAN, cleanup_keep_cameras : BOOLEAN,
     cleanup_keep_active_camera : BOOLEAN, cleanup_exclude_linked_data : BOOLEAN]

DropSettings ==
    [drop_collision_collection : {None, "Props"}, drop_include_subcollections : BOOLEAN,
     drop_align_rotation : BOOLEAN]

\* What is selected where the operator is invoked, and the mode.
OpsContexts ==
    {[fcurves |-> f, objects |-> o, active |-> a, bones |-> b, mode |-> m] :
        <<f, o, a, b, m>> \in
          {<<<<>>,  <<>>,                        None,   <<>>,    "OBJECT">>,
           <<<<1>>, <<"Face", "Floor", "Lamp">>, "Face", <<>>,    "OBJECT">>,
           <<<<>>,  <<"Rig">>,                   "Rig",  <<"A">>, "POSE">>,
           <<<<>>,  <<"Face">>,                  "Face", <<>>,    "EDIT_MESH">>}}

\* The objects of the scene; with `hidden`, those that are not selected are
\* hidden (the light by its collection) and the ground mesh is linked.
OpsObjects(ctx, hidden) ==
    [obj \in Range(AllObjects) |->
        [NewObject EXCEPT
           !.library = hidden /\ obj = "Floor",
           !.hide_render = hidden /\ ~InSeq(obj, ctx.objects),
           !.visible = ~(hidden /\ ~InSeq(obj, ctx.objects)),
           !.hide = hidden /\ ~InSeq(obj, ctx.objects) /\ obj # "Lamp",
           !.bone_select = IF obj = "Rig" THEN Range(ctx.bones) ELSE {}]]

InitOps ==
    /\ AddonEnabled
    /\ has_settings \in BOOLEAN
    /\ call = NoCall
    /\ ret = "NONE"
    /\ keyframe_points =
          (1 :> <<HoldKey(0, TRUE, "BEZIER"), HoldKey(2, FALSE, "LINEAR")>>) @@
          (2 :> <<HoldKey(0, TRUE, "BEZIER")>>) @@
          (3 :> <<HoldKey(1, FALSE, "LINEAR")>>) @@
          (4 :> <<>>)
    /\ lock = [c \in Curves |-> FALSE]
    /\ \E ctx \in OpsContexts, hidden \in BOOLEAN :
          /\ selected_editable_fcurves = ctx.fcurves
          /\ selected_objects = ctx.objects
          /\ active_object = ctx.active
          /\ selected_pose_bones = ctx.bones
          /\ active_pose_bone = IF ctx.bones = <<>> THEN None ELSE Head(ctx.bones)
          /\ view = [mode |-> ctx.mode, area_type |-> "VIEW_3D",
                     region_type |-> "WINDOW", header_text |-> None]
          /\ edit_objects = IF ctx.mode = "EDIT_MESH" THEN <<"Face">> ELSE <<>>
          /\ bpy_objects = OpsObjects(ctx, hidden)
    /\ modifiers =
          (1 :> <<[type |-> "NOISE", phase |-> 1000, offset |-> 0, strength |-> 1000,
                   scale |-> 1000],
                  [type |-> "CYCLES", phase |-> 0, offset |-> 0, strength |-> 0,
                   scale |-> 0]>>) @@
          (2 :> <<>>) @@ (3 :> <<>>) @@ (4 :> <<>>)
    /\ cycles = InitialCycles
    /\ eevee \in {InitialEevee, Absent}
    /\ shape_keys = [obj \in Objects |-> IF obj = "Face" THEN "named" ELSE "none"]
    /\ key_block = [obj \in Objects |-> NoKeyBlock]
    /\ key_block_before = key_block
    /\ blink = NotBlinking
    /\ scene_camera = "Camera"
    /\ camera_data = [c \in CameraObjects |-> IF c = "Camera" THEN OldCamera ELSE Absent]
    /\ render = InitialRender
    /\ refcam_image = None
    /\ refcam_flags = RefcamFlagDefaults
    /\ object_location = [obj \in Objects |-> 0]
    /\ verts = [obj \in Objects |->
                  IF obj = "Face" THEN <<[co |-> 0, select |-> TRUE],
                                         [co |-> 1, select |-> FALSE]>>
                  ELSE <<>>]
    /\ snap = NewSnap
    /\ geometry_before = <<object_location, verts>>
    /\ NoHold

\* The keyframe operators, run from the panel with offsets of whole frames
OpsOffsetKeyframes ==
    \E settings \in OffsetSettings :
        offset_keyframes(TRUE,
                         [settings EXCEPT !.keyframe_frame_offset = @ * TicksPerFrame],
                         OffsetPropsDefault)

OpsStaggerKeyframes ==
    \E settings \in StaggerSettings :
        stagger_keyframes(TRUE, [settings EXCEPT !.stagger_step = @ * TicksPerFrame],
                          StaggerPropsDefault)

ApplyEasePreset == \E settings \in EaseSettings : apply_ease_preset(settings)
ApplyRenderPreset ==
    \E settings \in RenderSettings : ANIMATIONQOL_OT_apply_render_preset(settings)
RandomizeNoiseModifiers ==
    \E include_only_selected_curves \in BOOLEAN, settings \in NoiseSettings :
        randomize_noise_modifiers(include_only_selected_curves, settings)
FlipSmart == \E settings \in FlipSettings, pasted \in BOOLEAN : flip_smart(settings, pasted)
FlipPoseOnly ==
    \E settings \in FlipSettings, pasted \in BOOLEAN : flip_pose_only(settings, pasted)
FlipObjectsOnly == \E settings \in FlipSettings : flip_objects_only(settings)
CleanupInvisible ==
    \E dry_run \in BOOLEAN, settings \in CleanupSettings :
        cleanup_invisible(dry_run, settings)
DropToSurface == \E settings \in DropSettings : drop_to_surface(settings)

NextOps ==
    \/ OpsOffsetKeyframes \/ OpsStaggerKeyframes
    \/ GenerateAutoBlinks \/ blink_for_target \/ BlinkWhile
    \/ RefcamLoadImage \/ RefcamApply
    \/ InsertMotionHold \/ hold_for_fcurve \/ HoldIterate
    \/ ApplyEasePreset \/ ApplyRenderPreset \/ RandomizeNoiseModifiers
    \/ FlipSmart \/ FlipPoseOnly \/ FlipObjectsOnly
    \/ CleanupInvisible \/ DropToSurface

SpecOps == InitOps /\ [][NextOps]_vars

(***************************************************************************)
(* Specification SpecCleanup: one invocation of cleanup_invisible on a     *)
(* scene whose objects are shown or hidden in the viewport and enabled or  *)
(* disabled for rendering independently.  The ground mesh may come from a  *)
(* library; the active camera is none, the camera, or the ground mesh made *)
(* the active camera (scene.camera takes any object: the host's "Set       *)
(* Active Object as Camera", and ensure_active_scene_camera tests its      *)
(* type for that reason).                                                  *)
(***************************************************************************)
Visibilities == [hide_render : BOOLEAN, visible : BOOLEAN]

CleanupContexts ==
    {[objects |-> o, active |-> a, mode |-> m] :
        <<o, a, m>> \in {<<<<>>,                None,    "OBJECT">>,
                         <<<<"Face", "Floor">>, "Floor", "OBJECT">>,
                         <<<<"Face">>,          "Face",  "EDIT_MESH">>}}

CleanupObjects(face, floor, lamp, camera, linked) ==
    [obj \in Range(AllObjects) |->
        LET v == CASE obj = "Face" -> face
                   [] obj = "Floor" -> floor
                   [] obj = "Lamp" -> lamp
                   [] obj = "Camera" -> camera
                   [] OTHER -> [hide_render |-> FALSE, visible |-> TRUE]
        IN [NewObject EXCEPT !.library = linked /\ obj = "Floor",
                             !.hide_render = v.hide_render,
                             !.visible = v.visible,
                             !.hide = ~v.visible]]

InitCleanup ==
    /\ AddonEnabled
    /\ NoShapeKeys
    /\ keyframe_points = [c \in Curves |-> <<>>]
    /\ lock = [c \in Curves |-> FALSE]
    /\ selected_editable_fcurves = <<>>
    /\ selected_pose_bones = <<>>
    /\ active_pose_bone = None
    /\ NoHold
    /\ has_settings = TRUE
    /\ call = NoCall
    /\ ret = "NONE"
    /\ \E ctx \in CleanupContexts :
          /\ selected_objects = ctx.objects
          /\ active_object = ctx.active
          /\ view = [mode |-> ctx.mode, area_type |-> "VIEW_3D",
                     region_type |-> "WINDOW", header_text |-> None]
          /\ edit_objects = IF ctx.mode = "EDIT_MESH" THEN <<"Face">> ELSE <<>>
    /\ \E face \in Visibilities, floor \in Visibilities, lamp \in Visibilities,
          camera \in Visibilities, linked \in BOOLEAN :
          bpy_objects = CleanupObjects(face, floor, lamp, camera, linked)
    /\ modifiers = [c \in Curves |-> <<>>]
    /\ cycles = InitialCycles
    /\ eevee = InitialEevee
    /\ scene_camera \in {None, "Camera", "Floor"}
    /\ camera_data = [c \in CameraObjects |-> IF c = "Camera" THEN OldCamera ELSE Absent]
    /\ render = InitialRender
    /\ refcam_image = None
    /\ refcam_flags = RefcamFlagDefaults
    /\ object_location = [obj \in Objects |-> 0]
    /\ verts = [obj \in Objects |-> <<>>]
    /\ snap = NewSnap
    /\ geometry_before = <<object_location, verts>>

NextCleanup == CleanupInvisible

SpecCleanup == InitCleanup /\ [][NextCleanup]_vars

(***************************************************************************)
(* Specification SpecFlip: one invocation of a flip operator on a scene    *)
(* whose meshes and light are linked or local and hidden or shown          *)
(* independently.  "Face" is parented to "Rig" and is in two collections.  *)
(***************************************************************************)
FlipFlags == [library : BOOLEAN, hide : BOOLEAN]

FlipContexts ==
    {[objects |-> o, active |-> a] :
        <<o, a>> \in {<<<<>>,                        None>>,
                      <<<<"Rig", "Face">>,           "Rig">>,
                      <<<<"Face", "Floor", "Lamp">>, "Face">>}}

FlipObjects(face, floor, lamp, face_scale) ==
    [obj \in Range(AllObjects) |->
        LET f == CASE obj = "Face" -> face
                   [] obj = "Floor" -> floor
                   [] obj = "Lamp" -> lamp
                   [] OTHER -> [library |-> FALSE, hide |-> FALSE]
        IN [NewObject EXCEPT !.library = f.library,
                             !.hide = f.hide,
                             !.visible = ~f.hide,
                             !.scale = IF obj = "Face" THEN face_scale ELSE @]]

InitFlip ==
    /\ AddonEnabled
    /\ NoShapeKeys
    /\ keyframe_points = [c \in Curves |-> <<>>]
    /\ lock = [c \in Curves |-> FALSE]
    /\ selected_editable_fcurves = <<>>
    /\ selected_pose_bones = <<>>
    /\ active_pose_bone = None
    /\ NoHold
    /\ NoCameras
    /\ has_settings = TRUE
    /\ call = NoCall
    /\ ret = "NONE"
    /\ \E ctx \in FlipContexts :
          /\ selected_objects = ctx.objects
          /\ active_object = ctx.active
    /\ NoViewport
    /\ \E face \in FlipFlags, floor \in FlipFlags, lamp \in FlipFlags,
          face_scale \in {<<1, 1, 1>>, <<-1, 2, 3>>} :
          bpy_objects = FlipObjects(face, floor, lamp, face_scale)
    /\ modifiers = [c \in Curves |-> <<>>]
    /\ cycles = InitialCycles
    /\ eevee = InitialEevee

NextFlip == FlipSmart \/ FlipPoseOnly \/ FlipObjectsOnly

SpecFlip == InitFlip /\ [][NextFlip]_vars

(***************************************************************************)
(* Claims about the keyframe-shifting operators (SpecKeys).                *)
(***************************************************************************)
Count(s, e) == Cardinality({i \in DOMAIN s : s[i] = e})
\* The same keyframes, whatever their order in the list.
SameKeyframes(s, t) ==
    /\ Len(s) = Len(t)
    /\ \A i \in DOMAIN s : Count(s, s[i]) = Count(t, s[i])

\* The curves offset_keyframes works on: the selected curves, else the curves
\* of the selected objects and the active object.
OffsetTargets ==
    IF gather_target_fcurves(TRUE, TRUE) # <<>> THEN gather_target_fcurves(TRUE, TRUE)
    ELSE gather_target_fcurves(FALSE, TRUE)

RanOffset(c) == c.op = "offset_keyframes" /\ DOMAIN c # {"op"}
RanStagger(c) == c.op = "stagger_keyframes" /\ DOMAIN c # {"op"}

\* C1: in UNIFORM mode with a non-zero offset d and 'only selected keys',
\* offset_keyframes leaves on every gathered curve exactly the keyframes it
\* had, the selected ones with co.x and both handle x moved by d (value and
\* selection as they were), the unselected ones untouched.
C1_UniformShiftsSelected ==
    [][(RanOffset(call') /\ call'.mode = "UNIFORM" /\ call'.frame_delta # 0
        /\ call'.only_selected)
       => \A i \in DOMAIN OffsetTargets :
            LET before == keyframe_points[OffsetTargets[i]]
                d == call'.frame_delta
                expected == [j \in DOMAIN before |->
                                IF before[j].sel
                                THEN [x |-> before[j].x + d, y |-> before[j].y,
                                      hl |-> before[j].hl + d, hr |-> before[j].hr + d,
                                      sel |-> TRUE]
                                ELSE before[j]]
            IN SameKeyframes(keyframe_points'[OffsetTargets[i]], expected)]_vars

\* A selected keyframe was moved past an unselected one on a gathered curve.
C1_Witness ==
    /\ RanOffset(call) /\ ret = "FINISHED"
    /\ call.mode = "UNIFORM" /\ call.only_selected /\ call.frame_delta = 2
    /\ \E i \in DOMAIN OffsetTargets :
          LET points == keyframe_points[OffsetTargets[i]]
          IN Len(points) = 2 /\ ~points[1].sel /\ points[2].sel /\ points[2].y = 0

\* C2: a zero frame offset (offset_keyframes) or a zero step
\* (stagger_keyframes) returns CANCELLED and leaves every keyframe of every
\* curve as it was, whatever the selection and the mode.
C2_ZeroOffsetIsNoOp ==
    [][((RanOffset(call') /\ call'.frame_delta = 0)
        \/ (RanStagger(call') /\ call'.step = 0))
       => (ret' = "CANCELLED" /\ keyframe_points' = keyframe_points)]_vars

\* A zero offset was applied in a cascading mode with selected keyframes on
\* a selected curve.
C2_Witness ==
    /\ RanOffset(call) /\ call.frame_delta = 0 /\ call.mode = "ORDER"
    /\ ret = "CANCELLED"
    /\ \E i \in DOMAIN OffsetTargets :
          \E j \in DOMAIN keyframe_points[OffsetTargets[i]] :
              keyframe_points[OffsetTargets[i]][j].sel

(***************************************************************************)
(* Claims about generate_auto_blinks (SpecBlink)                           *)
(***************************************************************************)
RanBlink == call.op = "generate_auto_blinks"

\* C3: when generate_auto_blinks returns CANCELLED, whatever the reason
\* (a frame range too short for a single blink included), it has inserted no
\* keyframe on any shape key and changed no shape key value.
C3_CancelledBlinkChangesNothing ==
    (RanBlink /\ ret = "CANCELLED") => key_block = key_block_before

\* The range is too short for one blink, yet the baseline keys are in place.
C3_Witness ==
    /\ RanBlink /\ ret = "CANCELLED"
    /\ DOMAIN call # {"op"}
    /\ call.frame_start + call.blink_length > call.frame_end
    /\ \E obj \in Objects : DOMAIN key_block[obj].keyframes # {}

\* C7: the blink loop of every object terminates: the current frame grows
\* strictly on every iteration, whatever the configured interval, randomness
\* and durations (zero and negative ones included), so that every invocation
\* returns.
C7_BlinkLoopTerminates ==
    /\ [][(blink.pc = "while" /\ blink'.pc = "while")
            => blink'.current_frame > blink.current_frame]_vars
    /\ <>(ret # "NONE")

\* Two blinks were placed with clamped inputs and the loop is about to exit.
C7_Witness ==
    /\ blink.pc = "while"
    /\ blink.blink_count >= 2
    /\ call.interval = 1 /\ call.randomness = 3
    /\ blink.current_frame + call.blink_length > call.frame_end

(***************************************************************************)
(* Claims about refcam_apply (SpecRefcam)                                  *)
(***************************************************************************)
Optics(cam) == <<cam.sensor_width, cam.sensor_height, cam.sensor_fit, cam.lens>>

\* C4: whenever refcam_apply returns CANCELLED (missing settings,
\* non-positive sensor dimensions or a lens computation error) it has created
\* no camera object, has not changed the scene's active camera and has not
\* changed the sensor width, sensor height, sensor fit or lens of any camera.
C4_CancelledApplyChangesNoCamera ==
    [][(call'.op = "refcam_apply" /\ ret' = "CANCELLED")
       => /\ scene_camera' = scene_camera
          /\ \A c \in CameraObjects :
                /\ (camera_data'[c] = Absent) <=> (camera_data[c] = Absent)
                /\ camera_data[c] # Absent => Optics(camera_data'[c]) = Optics(camera_data[c])
      ]_vars

\* refcam_apply was cancelled by the lens computation with a camera around.
C4_Witness ==
    /\ call.op = "refcam_apply" /\ ret = "CANCELLED"
    /\ "lens_error" \in DOMAIN call
    /\ call.lens_error
    /\ scene_camera # None

(***************************************************************************)
(* Claims about the quick snap session (SpecSnap)                          *)
(***************************************************************************)
Geometry == <<object_location, verts>>

ValidPick(c) == c.op = "quick_snap.modal" /\ "pick" \in DOMAIN c /\ c.pick # NoVector

\* C5: the quick snap session is a two-click toggle.  It starts awaiting
\* the source pick; the first valid pick records the source point and moves
\* to awaiting the destination without moving geometry; geometry moves only
\* on a valid pick received while awaiting the destination, and that pick
\* ends the session with FINISHED, so geometry moves at most once per
\* session; the stage never goes back from DEST to SOURCE.
C5_TwoClickToggle ==
    [][/\ (~snap.running /\ snap'.running)
           => (snap'._stage = "SOURCE" /\ snap'._source_point = NoVector)
       /\ (snap.running /\ snap._stage = "SOURCE" /\ ValidPick(call'))
           => /\ snap'._stage = "DEST" /\ snap'._source_point = call'.pick
              /\ snap'.running /\ ret' = "RUNNING_MODAL"
              /\ Geometry' = Geometry
       /\ Geometry' # Geometry
           => /\ snap.running /\ snap._stage = "DEST" /\ ValidPick(call')
              /\ ~snap'.running
       /\ (snap.running /\ snap._stage = "DEST" /\ ValidPick(call'))
           => (ret' = "FINISHED" /\ ~snap'.running)
       /\ snap._stage = "DEST" => snap'._stage = "DEST"
      ]_vars

\* A session ended on its second valid pick, having moved a selected object.
C5_Witness ==
    /\ ValidPick(call) /\ ret = "FINISHED"
    /\ snap._stage = "DEST" /\ snap._source_point # call.pick
    /\ \E obj \in Range(selected_objects) : object_location[obj] \notin {0, MaxCoord}

(***************************************************************************)
(* Claims about insert_motion_hold (SpecHold)                              *)
(***************************************************************************)
RanHold == call.op = "insert_motion_hold" /\ DOMAIN call # {"op"}

\* The keys of curve c the invocation targeted when it started
TargetedKeys(c) ==
    {i \in DOMAIN keyframe_points_before[c] :
        /\ InSeq(c, call.fcurves)
        /\ call.only_selected_keys => keyframe_points_before[c][i].sel}

\* The keyframes the invocation has used as sources so far
HoldSources == IF "sources" \in DOMAIN hold THEN hold.sources ELSE {}

EnabledShortcuts(p) ==
    {i \in DOMAIN Shortcuts : p[Shortcuts[i].feature] /\ p[Shortcuts[i].shortcut]}

\* The add-on's items installed in the host's keymaps, as (keymap, item id)
InstalledItems ==
    UNION {{<<n, keymaps[n][i].id>> : i \in DOMAIN keymaps[n]} : n \in DOMAIN keymaps}
        \ {<<n, ForeignItem.id>> : n \in DOMAIN keymaps}

RegistryExact ==
    /\ Len(_addon_keymaps) = Cardinality(EnabledShortcuts(prefs))
    /\ \A s \in EnabledShortcuts(prefs) :
          \E e \in DOMAIN _addon_keymaps :
              /\ _addon_keymaps[e][1] = Shortcuts[s].keymap
              /\ \E i \in DOMAIN keymaps[Shortcuts[s].keymap] :
                    keymaps[Shortcuts[s].keymap][i]
                        = KeymapItem(_addon_keymaps[e][2], Shortcuts[s].idname)
    /\ InstalledItems = Range(_addon_keymaps)

RanRefresh(c) == c.op \in {"refresh_keymaps", "_update_keymaps", "register"}

\* C8: when refresh_keymaps returns, with the add-on preferences and the
\* add-on key configuration available, the registry holds exactly one
\* (keymap, item) entry for each shortcut whose feature flag and shortcut
\* flag are both on and no other entry, and the host's keymaps hold exactly
\* the registry's items of the add-on: no duplicate and no stale item,
\* however many refreshes ran before.
C8_RefreshInstallsExactlyEnabled ==
    [][(RanRefresh(call') /\ PrefsAvailable(addon_entry', registered')
            /\ keyconfigs_addon')
       => RegistryExact']_vars

\* A refresh replaced two installed shortcuts by three.
C8_Witness ==
    /\ RanRefresh(call) /\ call.removed = 2
    /\ PrefsAvailable(addon_entry, registered) /\ keyconfigs_addon
    /\ Len(_addon_keymaps) = 3

\* C9: after unregister(), whatever toggles and refreshes happened since
\* register(), the registry is empty, no item the add-on installed is left
\* in a host keymap, and the scene has no animation_qol_settings.
C9_UnregisterUndoesRegister ==
    [][call'.op = "unregister"
       => (_addon_keymaps' = <<>> /\ InstalledItems' = {} /\ ~has_settings')]_vars

\* unregister() ran with installed shortcuts next to another add-on's item.
C9_Witness ==
    /\ call.op = "unregister" /\ call.removed >= 2
    /\ ~registered
    /\ \E n \in DOMAIN keymaps : keymaps[n] = <<ForeignItem>>

(***************************************************************************)
(* Claims about every operator's execute (SpecOps).                        *)
(***************************************************************************)
\* C10: on a scene without animation_qol_settings every operator's execute
\* returns CANCELLED at once and leaves every keyframe, modifier, object,
\* shape key, camera and render setting, as well as the selection, the mode
\* and the keymaps, as they were.
C10_NoSettingsCancelsUntouched ==
    [][~has_settings =>
          /\ ret' = "CANCELLED"
          /\ UNCHANGED <<animVars, blinkVars, camVars, snapVars, holdVars, addonVars,
                         sceneVars>>]_vars

\* cleanup_invisible has returned CANCELLED on a scene without settings in
\* which the unselected objects are hidden.
C10_Witness ==
    /\ ~has_settings
    /\ ret = "CANCELLED"
    /\ call.op = "cleanup_invisible"
    /\ \E obj \in Objects : in_scene(obj) /\ ~bpy_objects[obj].visible
                            /\ bpy_objects[obj].hide_render

(***************************************************************************)
(* Claims about cleanup_invisible (SpecCleanup).                           *)
(***************************************************************************)
RanCleanup(c) == c.op = "cleanup_invisible" /\ DOMAIN c # {"op"}

\* The object is removed by this step.
Removed(obj) == in_scene(obj) /\ ~in_scene(obj)'

\* C11: with dry_run enabled cleanup_invisible.execute returns CANCELLED and
\* removes no object from the scene, changes no object's selection state and
\* leaves the active object, the mode and the active camera as they were.
C11_DryRunRemovesNothing ==
    [][(RanCleanup(call') /\ call'.dry_run)
       => /\ ret' = "CANCELLED"
          /\ \A obj \in Range(AllObjects) : ~Removed(obj)
          /\ UNCHANGED <<bpy_objects, camera_data, selected_objects, active_object,
                         scene_camera, view, edit_objects>>]_vars

\* A dry run that found candidates, among them the selected active object.
C11_Witness ==
    /\ RanCleanup(call) /\ call.dry_run /\ ret = "CANCELLED"
    /\ InSeq(active_object, call.candidates)
    /\ InSeq(active_object, selected_objects)
    /\ Len(call.candidates) >= 2

\* What the keep/skip options of `settings` protect, `active_camera` being
\* the scene's active camera.
Protected(obj, settings, active_camera) ==
    \/ settings.cleanup_keep_lights /\ ObjectType[obj] \in {"LIGHT", "LIGHT_PROBE"}
    \/ settings.cleanup_keep_cameras /\ ObjectType[obj] = "CAMERA"
    \/ settings.cleanup_keep_active_camera /\ obj = active_camera
    \/ settings.cleanup_exclude_linked_data /\ bpy_objects[obj].library

\* C12: cleanup_invisible removes no protected object: no light with
\* cleanup_keep_lights, no camera with cleanup_keep_cameras, not the scene's
\* active camera with cleanup_keep_active_camera, no library object with
\* cleanup_exclude_linked_data.
C12_ProtectedNeverRemoved ==
    [][RanCleanup(call')
       => \A obj \in Range(AllObjects) :
            Removed(obj) => ~Protected(obj, call'.settings, scene_camera)]_vars

\* cleanup_keep_active_camera is on and the scene's active camera, an object
\* that is not of type CAMERA, was removed.
C12_Witness ==
    /\ RanCleanup(call) /\ ret = "FINISHED"
    /\ call.settings.cleanup_keep_active_camera
    /\ call.active_camera = "Floor"
    /\ InSeq("Floor", call.candidates)
    /\ ~in_scene("Floor")
    /\ scene_camera = None

C14_OnlyInvisibleRemoved ==
    [][RanCleanup(call')
       => \A obj \in Range(AllObjects) :
            Removed(obj)
            => /\ ~(call'.settings.cleanup_consider_viewport /\ bpy_objects[obj].visible)
               /\ ~(call'.settings.cleanup_consider_render /\ ~bpy_objects[obj].hide_render)
               /\ \/ call'.settings.cleanup_consider_viewport
                  \/ call'.settings.cleanup_consider_render]_vars

\* With render visibility alone considered, an object shown in the viewport
\* and disabled for rendering was removed and one enabled for rendering stays.
C14_Witness ==
    /\ RanCleanup(call) /\ ret = "FINISHED"
    /\ ~call.settings.cleanup_consider_viewport /\ call.settings.cleanup_consider_render
    /\ ~in_scene("Face") /\ bpy_objects["Face"].visible /\ bpy_objects["Face"].hide_render
    /\ in_scene("Floor") /\ ~bpy_objects["Floor"].visible
    /\ ~bpy_objects["Floor"].hide_render
    /\ ~Protected("Floor", call.settings, call.active_camera)

(***************************************************************************)
(* Claims about the noise randomizer (SpecOps).                            *)
(***************************************************************************)
RanNoise(c) == c.op = "randomize_noise_modifiers" /\ "settings" \in DOMAIN c

\* C15: with include_only_selected_curves, randomize_noise_modifiers changes
\* or creates noise modifiers only on F-curves of the selected editable curve
\* set, whatever is selected, no curve being selected included.
C15_OnlySelectedCurvesTouched ==
    [][(RanNoise(call') /\ call'.include_only_selected_curves)
       => \A c \in Curves :
            modifiers'[c] # modifiers[c] => InSeq(c, selected_editable_fcurves)]_vars

\* No curve is selected in the Graph Editor, and the operator, limited to
\* selected curves, created a modifier on a curve of the selected object.
C15_Witness ==
    /\ RanNoise(call) /\ ret = "FINISHED"
    /\ call.include_only_selected_curves
    /\ selected_editable_fcurves = <<>>
    /\ call.created > 0
    /\ \E c \in Curves : InSeq(c, call.fcurves) /\ modifiers[c] # <<>>

\* v lies between the two bounds, whichever is the greater.
Between(v, bound_a, bound_b) == Min(bound_a, bound_b) <= v /\ v <= Max(bound_a, bound_b)

\* The modifiers the operator assigned values to: the noise modifiers of the
\* gathered curves.
Randomized(c) ==
    {<<curve, i>> \in Curves \X (1..3) :
        /\ InSeq(curve, c.fcurves)
        /\ i \in DOMAIN modifiers[curve]
        /\ IsNoise(modifiers[curve][i])}

\* Each of the four ranges used is the two configured bounds, lower first.
RangesOrdered(c) ==
    \A r \in {<<c.phase, c.settings.noise_phase_min, c.settings.noise_phase_max>>,
              <<c.offset, c.settings.noise_offset_min, c.settings.noise_offset_max>>,
              <<c.strength, c.settings.noise_strength_min, c.settings.noise_strength_max>>,
              <<c.scale, c.settings.noise_scale_min, c.settings.noise_scale_max>>} :
        r[1] = <<Min(r[2], r[3]), Max(r[2], r[3])>>

\* C16 as stated: the four ranges are ordered lower first, every value
\* assigned to a modifier lies between its two configured bounds, and the
\* assigned scale is at least 0.001.
C16_AssignedWithinConfiguredBounds ==
    RanNoise(call)
    => /\ RangesOrdered(call)
       /\ \A m \in Randomized(call) :
            LET mod == modifiers[m[1]][m[2]]
                s == call.settings
            IN /\ Between(mod.phase, s.noise_phase_min, s.noise_phase_max)
               /\ Between(mod.offset, s.noise_offset_min, s.noise_offset_max)
               /\ Between(mod.strength, s.noise_strength_min, s.noise_strength_max)
               /\ Between(mod.scale, s.noise_scale_min, s.noise_scale_max)
               /\ mod.scale >= 1

\* C16: the four ranges are ordered lower first; every assigned phase, offset
\* and strength lies between its two configured bounds; the assigned scale is
\* a value between its two configured bounds raised to 0.001 when it is
\* below, so it is at least 0.001 and lies between the configured bounds
\* whenever the greater of them is at least 0.001.
C16_AssignedWithinBoundsScaleFloored ==
    RanNoise(call)
    => /\ RangesOrdered(call)
       /\ \A m \in Randomized(call) :
            LET mod == modifiers[m[1]][m[2]]
                s == call.settings
            IN /\ Between(mod.phase, s.noise_phase_min, s.noise_phase_max)
               /\ Between(mod.offset, s.noise_offset_min, s.noise_offset_max)
               /\ Between(mod.strength, s.noise_strength_min, s.noise_strength_max)
               /\ Between(mod.scale, Max(1, s.noise_scale_min), Max(1, s.noise_scale_max))
               /\ mod.scale >= 1
               /\ Max(s.noise_scale_min, s.noise_scale_max) >= 1
                  => Between(mod.scale, s.noise_scale_min, s.noise_scale_max)

\* The phase and strength bounds are configured min above max and a modifier
\* got the greater phase bound; both scale bounds are below 0.001 and the
\* modifier's scale is 0.001.
C16_Witness ==
    /\ RanNoise(call) /\ ret = "FINISHED"
    /\ call.settings.noise_phase_min > call.settings.noise_phase_max
    /\ call.settings.noise_strength_min > call.settings.noise_strength_max
    /\ call.settings.noise_scale_min = 0 /\ call.settings.noise_scale_max = 0
    /\ \E m \in Randomized(call) :
          /\ modifiers[m[1]][m[2]].phase = call.settings.noise_phase_min
          /\ modifiers[m[1]][m[2]].strength = call.settings.noise_strength_max
          /\ modifiers[m[1]][m[2]].scale = 1

(***************************************************************************)
(* Claims about the stagger and offset operators (SpecKeys).               *)
(***************************************************************************)
\* The keyframes of `before` with the targeted ones moved by d.
ShiftedBy(before, d, only_selected) ==
    [j \in DOMAIN before |->
        IF only_selected /\ ~before[j].sel THEN before[j]
        ELSE [before[j] EXCEPT !.x = @ + d, !.hl = @ + d, !.hr = @ + d]]

\* The selected pose bones and the active one
StaggerBones ==
    IF active_pose_bone # None /\ ~InSeq(active_pose_bone, selected_pose_bones)
    THEN Append(selected_pose_bones, active_pose_bone)
    ELSE selected_pose_bones

\* After the step, every unlocked curve of the object at position i (0-based)
\* of the selection, reversed with reverse_order, holds its keyframes with
\* the targeted ones moved by i * step.
StaggeredByPosition(c) ==
    LET objs == IF c.reverse_order THEN Reversed(selected_objects) ELSE selected_objects
    IN \A i \in DOMAIN objs :
         LET fcurves == iter_fcurves_for_object(objs[i], c.include_shape_keys)
         IN \A k \in DOMAIN fcurves :
              ~lock[fcurves[k]]
              => SameKeyframes(keyframe_points'[fcurves[k]],
                               ShiftedBy(keyframe_points[fcurves[k]], (i - 1) * c.step,
                                         c.selected_only))

\* C17 as stated: stagger_keyframes run on two or more selected objects, each
\* with an action of its own, moves the targeted keyframes of the object at
\* position i by i * step.
C17_ObjectAtPositionShiftedByIStep ==
    [][(RanStagger(call') /\ Len(selected_objects) >= 2) => StaggeredByPosition(call')]_vars

\* C17: stagger_keyframes run on two or more selected objects, each with an
\* action of its own, while fewer than two pose bones are selected (the
\* active pose bone counted), moves the targeted keyframes of the object at
\* position i by i * step; with two or more pose bones it staggers the bones
\* and not the objects.
C17_ObjectsStaggeredUnlessBones ==
    [][(RanStagger(call') /\ Len(selected_objects) >= 2 /\ Len(StaggerBones) <= 1)
       => StaggeredByPosition(call')]_vars

\* Three objects were staggered in selection order by a step of two frames:
\* the selected key of the third object's curve went from frame 0 to frame 4
\* and the unselected one stayed, with 'selected only'.
C17_Witness ==
    /\ RanStagger(call) /\ ret = "FINISHED"
    /\ call.step = 2 /\ ~call.reverse_order /\ call.selected_only
    /\ selected_objects = <<"Rig", "Face", "Camera">>
    /\ Len(StaggerBones) <= 1
    /\ \E j \in DOMAIN keyframe_points[4] :
          keyframe_points[4][j].x = 4 /\ keyframe_points[4][j].sel
    /\ \E j \in DOMAIN keyframe_points[4] :
          keyframe_points[4][j].x = 1 /\ ~keyframe_points[4][j].sel

\* The position (0-based) the mode gives a gathered curve: its place in the
\* gathered list in ORDER mode, the number of gathered curves of smaller
\* (owner name, group name, data path, array index) in NAME mode.
OffsetPosition(mode, fcurves, i) ==
    IF mode = "NAME"
    THEN Cardinality({j \in DOMAIN fcurves :
                        TupleLess(sort_key_by_name(fcurves[j]), sort_key_by_name(fcurves[i]))})
    ELSE i - 1

\* C18: in ORDER and NAME modes offset_keyframes moves the targeted keyframes
\* of the curve at position i of the ordered curve list by frame_delta * i,
\* the first curve staying as it is; in NAME mode the positions are those of
\* ascending (owner name, group name, data path, array index), whatever the
\* order of selection.
C18_IncrementalOffsetByPosition ==
    [][(RanOffset(call') /\ call'.mode \in {"ORDER", "NAME"})
       => \A i \in DOMAIN OffsetTargets :
            LET c == OffsetTargets[i]
                d == call'.frame_delta * OffsetPosition(call'.mode, OffsetTargets, i)
            IN /\ SameKeyframes(keyframe_points'[c],
                                ShiftedBy(keyframe_points[c], d, call'.only_selected))
               /\ OffsetPosition(call'.mode, OffsetTargets, i) = 0
                  => keyframe_points'[c] = keyframe_points[c]]_vars

\* NAME mode on the curves selected in the order 1, 3, 2 with an offset of two
\* frames: curve 3 (FaceKeyAction) is first and stays, curve 1 moved by two
\* frames and curve 2 by four.
C18_Witness ==
    /\ RanOffset(call) /\ ret = "FINISHED"
    /\ call.mode = "NAME" /\ call.frame_delta = 2
    /\ selected_editable_fcurves = <<1, 3, 2>>
    /\ \A c \in {1, 2, 3} : ~lock[c]
    /\ \E j \in DOMAIN keyframe_points_before[3] : keyframe_points_before[3][j].sel
    /\ keyframe_points[3] = keyframe_points_before[3]
    /\ keyframe_points[1] # keyframe_points_before[1]
    /\ keyframe_points[2] # keyframe_points_before[2]
    /\ SameKeyframes(keyframe_points[2],
                     ShiftedBy(keyframe_points_before[2], 4, call.only_selected))

(***************************************************************************)
(* Claims about the flip operators (SpecFlip).                             *)
(***************************************************************************)
RanFlipObjects(c) == c.op = "flip_objects_only" /\ "settings" \in DOMAIN c

\* The objects the flip settings put in scope: the selected objects, or those
\* of the collection and, on request, of its child collections; with
\* include_children, their descendants too.
FlipScope(settings) ==
    LET of(name) == Range(Collections[name].objects)
        base == IF settings.flip_scope = "COLLECTION"
                THEN IF settings.flip_collection = None THEN {}
                     ELSE of(settings.flip_collection) \cup
                          (IF settings.flip_include_subcollections
                           THEN UNION {of(child) :
                                   child \in Range(Collections[settings.flip_collection].children)}
                           ELSE {})
                ELSE Range(selected_objects)
    IN base \cup (IF settings.flip_include_children
                  THEN UNION {Range(children_recursive(obj)) : obj \in base}
                  ELSE {})

\* C19: flip_objects_only negates the scale on the configured axis once for
\* every object in scope that is not an armature, not linked and not hidden,
\* an object that is in scope twice included, and leaves the two other scale
\* components of every object as they were.
C19_FlipNegatesAxisOnce ==
    [][RanFlipObjects(call')
       => LET axis == AXIS_TO_INDEX[call'.settings.flip_axis] + 1
          IN \A obj \in Range(AllObjects) :
               /\ (/\ obj \in FlipScope(call'.settings)
                   /\ ObjectType[obj] # "ARMATURE"
                   /\ ~bpy_objects[obj].library
                   /\ ~bpy_objects[obj].hide)
                  => bpy_objects'[obj].scale[axis] = -bpy_objects[obj].scale[axis]
               /\ \A other \in {1, 2, 3} \ {axis} :
                    bpy_objects'[obj].scale[other] = bpy_objects[obj].scale[other]]_vars

\* "Rig" and its child "Face" are selected and the hierarchy is included, so
\* "Face" is in scope twice; its scale (-1, 2, 3) was flipped on Y once.
C19_Witness ==
    /\ RanFlipObjects(call) /\ ret = "FINISHED"
    /\ call.settings.flip_scope = "SELECTION" /\ call.settings.flip_include_children
    /\ call.settings.flip_axis = "Y"
    /\ selected_objects = <<"Rig", "Face">>
    /\ InSeq("Face", children_recursive("Rig"))
    /\ bpy_objects["Face"].scale = <<-1, -2, 3>>

\* C20: offset_keyframes and stagger_keyframes return FINISHED exactly when
\* they shifted a keyframe, and CANCELLED otherwise; after CANCELLED every
\* keyframe of every curve has the coordinates and handles it had.
C20_FinishedIffKeyframeShifted ==
    [][(call'.op \in {"offset_keyframes", "stagger_keyframes"})
       => /\ ret' \in {"FINISHED", "CANCELLED"}
          /\ ret' = "FINISHED" <=> keyframe_points' # keyframe_points
          /\ ret' = "CANCELLED" => keyframe_points' = keyframe_points]_vars

\* ORDER mode with a non-zero offset on two or more curves of which only the
\* first has a selected keyframe: no keyframe matched, the operator returned
\* CANCELLED.
C20_Witness ==
    /\ RanOffset(call) /\ ret = "CANCELLED"
    /\ call.mode = "ORDER" /\ call.frame_delta # 0 /\ call.only_selected
    /\ Len(OffsetTargets) >= 2
    /\ \E j \in DOMAIN keyframe_points[OffsetTargets[1]] :
          keyframe_points[OffsetTargets[1]][j].sel
    /\ \E j \in DOMAIN keyframe_points[OffsetTargets[2]] :
          ~keyframe_points[OffsetTargets[2]][j].sel
    /\ keyframe_points = keyframe_points_before

(***************************************************************************)
(* Claims about the events of a quick snap session (SpecSnap)              *)
(***************************************************************************)
ModalEvent(c) == c.op = "quick_snap.modal" /\ "event" \in DOMAIN c

CancelEvent(c) == ModalEvent(c) /\ c.event.type \in {"ESC", "RIGHTMOUSE"}

\* C21: an ESC or RIGHTMOUSE event received by a running session, in
\* either stage, ends it with CANCELLED, clears the header text, and leaves
\* every object location and vertex position as it was when the session
\* started.
C21_CancelEndsSessionUntouched ==
    [][(snap.running /\ CancelEvent(call'))
       => /\ ret' = "CANCELLED"
          /\ ~snap'.running
          /\ view'.header_text = None
          /\ Geometry' = geometry_before']_vars

\* A session cancelled with the right mouse button while awaiting the
\* destination pick, its header showing the destination prompt until then.
C21_Witness ==
    /\ CancelEvent(call) /\ call.event.type = "RIGHTMOUSE"
    /\ ret = "CANCELLED" /\ ~snap.running
    /\ snap._stage = "DEST" /\ snap._source_point # NoVector
    /\ snap._area # None /\ view.header_text = None
    /\ view.mode = "EDIT_MESH"

LeftPress(c) == ModalEvent(c) /\ c.event.type = "LEFTMOUSE" /\ c.event.value = "PRESS"

\* C22: during a session, a left click that yields no valid pick leaves the
\* stage and the stored source point unchanged and keeps the session
\* running (RUNNING_MODAL); every event other than ESC, RIGHTMOUSE and a
\* LEFTMOUSE press is passed through (PASS_THROUGH) without changing the
\* stage, the source point or any geometry.
C22_BlockedClickAndOtherEventsChangeNothing ==
    [][(snap.running /\ ModalEvent(call'))
       => /\ (LeftPress(call') /\ call'.pick = NoVector)
              => /\ ret' = "RUNNING_MODAL" /\ snap'.running
                 /\ snap'._stage = snap._stage
                 /\ snap'._source_point = snap._source_point
          /\ (~CancelEvent(call') /\ ~LeftPress(call'))
              => /\ ret' = "PASS_THROUGH" /\ snap'.running
                 /\ snap'._stage = snap._stage
                 /\ snap'._source_point = snap._source_point
                 /\ Geometry' = Geometry]_vars

\* A click that found nothing while the session awaited the destination:
\* the session still runs, in DEST, with its source point.
C22_Witness ==
    /\ LeftPress(call) /\ call.pick = NoVector
    /\ ret = "RUNNING_MODAL" /\ snap.running
    /\ snap._stage = "DEST" /\ snap._source_point # NoVector

\* C23: in every reachable state of a session the stage is DEST only if a
\* source point has been stored, so the assertion "self._source_point is
\* not None" of _handle_click holds whenever it is evaluated, after any
\* sequence of events.
C23_DestOnlyWithSourcePoint ==
    snap._stage = "DEST" => snap._source_point # NoVector

\* The assertion was evaluated and passed: a destination pick was handled
\* in edit mode and moved a selected vertex away from where it started.
C23_Witness ==
    /\ LeftPress(call) /\ call.pick # NoVector /\ ret = "FINISHED"
    /\ snap._stage = "DEST" /\ snap._source_point # NoVector
    /\ view.mode = "EDIT_MESH"
    /\ \E i \in DOMAIN verts["Face"] : verts["Face"][i].co # geometry_before[2]["Face"][i].co

(***************************************************************************)
(* Claims about the lens-mode flags (SpecToggle)                           *)
(***************************************************************************)
FlagsSet(flags) == {flag \in RefcamFlags : flags[flag]}

\* C24: after any sequence of user toggles of refcam_use_equiv_35,
\* refcam_use_fov_h and refcam_use_fov_v, each running its update callback,
\* starting from the defaults, at most one of the three flags is true; all
\* three may be false, and refcam_apply then uses the direct lens value.
C24_AtMostOneLensMode ==
    /\ [](Cardinality(FlagsSet(refcam_flags)) <= 1)
    /\ [][(ret = "NONE" /\ ret' = "FINISHED" /\ call'.op = "refcam_apply"
           /\ FlagsSet(refcam_flags) = {})
          => camera_data'[scene_camera'].lens = Max(1, call'.refcam_direct_lens_mm)]_vars

\* refcam_apply finished with the three flags false, after the user turned
\* the default 35mm-equivalent mode off.
C24_Witness ==
    /\ call.op = "refcam_apply" /\ ret = "FINISHED"
    /\ FlagsSet(refcam_flags) = {}
    /\ camera_data[scene_camera].lens = call.refcam_direct_lens_mm

====
